---- MODULE Spec2Model ----
(***************************************************************************)
(* A model of the quiz-platform backend: the datastore tables, the bearer  *)
(* tokens of auth/jwt_utils.py, the legacy cookie session, the cache       *)
(* utility of utils/cache.py and the route handlers the properties below   *)
(* are about.  Every handler is one action; its response is recorded in    *)
(* the variable resp.                                                      *)
(***************************************************************************)
EXTENDS Integers, Sequences, FiniteSets, TLC

\* ------------------------------------------------------------------ bounds
MaxUserId == 2
MaxQuizId == 1
MaxQuestions == 2
MaxOption == 2
MaxScores == 2
MaxTime == 3
MaxTokens == 2
TicksPerSecond == 2
LifeSeconds == 1
MaxNames == 2
MaxRows == 2
MaxCsvRows == 3
MaxBoardScores == 4
MaxValue == 2
MaxRequests == 2

\* ----------------------------------------------------------------- state
VARIABLES
    admins,        \* Admin rows (ids)
    users,         \* User rows [id, username]
    subjects,      \* Subject rows [id, name]
    chapters,      \* Chapter rows [id, name, subject_id]
    quizzes,       \* Quiz rows [id, chapter_id]
    questions,     \* Question rows [id, quiz_id, correct_option]
    scores,        \* Score rows [id, user_id, quiz_id, total_scored, time_stamp_of_attempt]
    tokens,        \* bearer tokens that were issued and are held by clients
    session,       \* the legacy cookie session [user_id, admin]
    now,           \* the wall clock, in ticks (TicksPerSecond ticks per second)
    inflight,      \* requests between two of their steps, queued tasks, running timers
    redis_client,  \* the cache client handle: "none", "down" (handle, server unreachable), "up"
    cache,         \* the cache server's store: key -> value
    resp           \* the response to the last request

vars == <<admins, users, subjects, chapters, quizzes, questions, scores,
          tokens, session, now, inflight, redis_client, cache, resp>>

dbVars == <<admins, users, subjects, chapters, quizzes, questions, scores>>

\* ---------------------------------------------------------------- helpers
None == 0                    \* a column or session key that is unset (ids start at 1)
NoPct == <<>>                \* no percentage in a response
NoDate == -1                 \* no timestamp in a response

Max(S) == IF S = {} THEN 0 ELSE CHOOSE x \in S : \A y \in S : y <= x

Ids(rows) == {r.id : r \in rows}

\* The next INTEGER PRIMARY KEY of a SQLite table: one more than the largest id.
NextId(rows) == Max(Ids(rows)) + 1

RECURSIVE Gcd(_, _)
Gcd(a, b) == IF b = 0 THEN a ELSE Gcd(b, a % b)

\* A non-negative rational in lowest terms, <<numerator, denominator>>.
Rat(n, d) == LET g == Gcd(n, d) IN <<n \div g, d \div g>>

\* (correct / total) * 100, and 0 when there are no questions.
Percentage(correct, total) == IF total > 0 THEN Rat(correct * 100, total) ELSE Rat(0, 1)

\* ------------------------------------------------- auth/jwt_utils.py: tokens
\* What a request carries in its Authorization header: no bearer token, a
\* string that does not decode, or a token create_access_token issued.
NoToken == [kind |-> "none", sub |-> None, admin |-> FALSE, iat |-> 0, exp |-> 0,
            issued_at |-> 0, lifetime |-> 0]
BadToken == [kind |-> "bad", sub |-> None, admin |-> FALSE, iat |-> 0, exp |-> 0,
             issued_at |-> 0, lifetime |-> 0]

\* timedelta(hours=24), scaled to the model's clock.
DefaultLifetime == TicksPerSecond * LifeSeconds

\* jwt.encode writes iat and exp as NumericDate: whole seconds, the fraction cut.
NumericDate(t) == t \div TicksPerSecond

\* issued_at and lifetime are bookkeeping (t and L of the caller), not claims.
create_access_token(user_id, is_admin, expires_delta) ==
    [kind |-> "jwt", sub |-> user_id, admin |-> is_admin,
     iat |-> NumericDate(now), exp |-> NumericDate(now + expires_delta),
     issued_at |-> now, lifetime |-> expires_delta]

\* A mutant of the expiry check: a token still passes at its exp second.
ExpiredStrictlyAfter(tok, t) == tok.exp * TicksPerSecond < t

\* jwt.decode's expiry check: exp <= now, with now the unrounded clock.
Expired(tok, t) == tok.exp * TicksPerSecond <= t

\* jwt.decode: "ok", or the exception it raises.
Decode(tok, t) ==
    IF tok.kind = "bad" THEN "InvalidTokenError"
    ELSE IF Expired(tok, t) THEN "ExpiredSignatureError"
    ELSE "ok"

Pass == [pass |-> TRUE, status |-> 200, message |-> ""]
Reject(status, message) == [pass |-> FALSE, status |-> status, message |-> message]

get_jwt_identity(tok) ==
    IF tok.kind = "none" THEN None
    ELSE IF Decode(tok, now) = "ok" THEN tok.sub ELSE None

jwt_required(tok) ==
    IF tok.kind = "none" THEN Reject(401, "Missing authorization token")
    ELSE IF Decode(tok, now) = "ExpiredSignatureError" THEN Reject(401, "Token has expired")
    ELSE IF Decode(tok, now) = "InvalidTokenError" THEN Reject(401, "Invalid token")
    ELSE Pass

\* A mutant of the claim-based admin guard: the admin claim is not looked at.
jwt_utils_admin_required_any_token(tok) == jwt_required(tok)

\* admin_required of auth/jwt_utils.py: the admin claim decides.
jwt_utils_admin_required(tok) ==
    IF tok.kind = "none" THEN Reject(401, "Missing authorization token")
    ELSE IF Decode(tok, now) = "ExpiredSignatureError" THEN Reject(401, "Token has expired")
    ELSE IF Decode(tok, now) = "InvalidTokenError" THEN Reject(401, "Invalid token")
    ELSE IF ~tok.admin THEN Reject(403, "Admin access required")
    ELSE Pass

\* admin_required of routes/admin.py: jwt_required, then an Admin row whose
\* id is the token's subject decides.
admin_required(tok) ==
    IF ~jwt_required(tok).pass THEN jwt_required(tok)
    ELSE IF get_jwt_identity(tok) \notin admins THEN Reject(403, "Admin privileges required")
    ELSE Pass

\* The Authorization headers a client can send.
Headers == tokens \cup {NoToken, BadToken}

\* ---------------------------------------------------------- utils/cache.py
\* A cache key: the prefix before the first colon, the rest of the name, and
\* the id that follows it (0 when there is none).
Key(prefix, name, id) == [prefix |-> prefix, name |-> name, id |-> id]

\* What RedisCache.get returns for a key that is not there (Python's None).
CacheMiss == [miss |-> TRUE]

EmptyCache == [k \in {} |-> CacheMiss]

is_redis_available == redis_client # "none"

\* A mutant of RedisCache.get: the store is read without looking at the handle.
RedisCache_get_unchecked(key) ==
    IF key \in DOMAIN cache THEN cache[key] ELSE CacheMiss

\* RedisCache.get: None without a handle, and None when the call raises
\* because the server is unreachable.
RedisCache_get(key) ==
    IF ~is_redis_available THEN CacheMiss
    ELSE IF redis_client = "down" THEN CacheMiss
    ELSE IF key \in DOMAIN cache THEN cache[key]
    ELSE CacheMiss

\* RedisCache.set: the flag it returns, and the store it leaves.
RedisCache_set_ok == is_redis_available /\ redis_client = "up"

RedisCache_set(store, key, value) ==
    IF RedisCache_set_ok
    THEN [k \in DOMAIN store \cup {key} |-> IF k = key THEN value ELSE store[k]]
    ELSE store

\* RedisCache.delete: the flag it returns (the number of keys removed, or
\* False), and the store it leaves.
RedisCache_delete_result(store, key) ==
    IF ~is_redis_available \/ redis_client = "down" THEN 0
    ELSE IF key \in DOMAIN store THEN 1 ELSE 0

RedisCache_delete(store, key) ==
    IF RedisCache_set_ok
    THEN [k \in DOMAIN store \ {key} |-> store[k]]
    ELSE store

\* The words of interest a key's name holds, for the glob patterns below.
NameHolds(name, word) ==
    \/ name = word
    \/ word = "quiz" /\ name \in {"get_quizzes", "get_user_quiz_dashboard",
                                  "get_quiz_leaderboard", "get_popular_quizzes"}
    \/ word = "dashboard" /\ name = "get_user_quiz_dashboard"

\* Redis KEYS for the patterns invalidate_model_cache builds: all of them
\* start with the literal "view:", then ask for a word in the rest of the key
\* and, for the specific pattern, for ":<id>" after it.
GlobMatches(pattern, key) ==
    /\ key.prefix = pattern.prefix
    /\ NameHolds(key.name, pattern.word)
    /\ pattern.id # 0 => key.id = pattern.id

Pattern(prefix, word, id) == [prefix |-> prefix, word |-> word, id |-> id]

\* RedisCache.flush_pattern: the count it returns (False is 0), and the store.
RedisCache_flush_pattern_result(store, pattern) ==
    IF RedisCache_set_ok
    THEN Cardinality({k \in DOMAIN store : GlobMatches(pattern, k)})
    ELSE 0

RedisCache_flush_pattern(store, pattern) ==
    IF RedisCache_set_ok
    THEN [k \in {x \in DOMAIN store : ~GlobMatches(pattern, x)} |-> store[k]]
    ELSE store

\* invalidate_model_cache: the store it leaves.  It has no result and no
\* call in it is outside RedisCache's own exception handlers.
invalidate_model_cache(store, model_name, model_id) ==
    IF ~is_redis_available THEN store
    ELSE LET s1 == IF model_id # 0
                   THEN RedisCache_flush_pattern(store, Pattern("view", model_name, model_id))
                   ELSE store
             s2 == RedisCache_flush_pattern(s1, Pattern("view", model_name, 0))
         IN RedisCache_flush_pattern(s2, Pattern("view", "get_user_quiz_dashboard", 0))

\* A mutant of cached_response: the handle is not looked at, and an entry
\* under the key is the answer.
cached_response_unchecked(key, fresh) ==
    IF RedisCache_get_unchecked(key) # CacheMiss
    THEN [result |-> RedisCache_get_unchecked(key), store |-> cache]
    ELSE [result |-> fresh, store |-> cache]

\* cached_response: what the decorated handler returns, given the key built
\* from its name and arguments and the handler's own result, and the store
\* the call leaves.
cached_response(key, fresh) ==
    IF ~is_redis_available THEN [result |-> fresh, store |-> cache]
    ELSE IF RedisCache_get(key) # CacheMiss
    THEN [result |-> RedisCache_get(key), store |-> cache]
    ELSE [result |-> fresh, store |-> RedisCache_set(cache, key, fresh)]

\* ------------------------------------------------------------ initial state
\* init_db seeds one Admin; the catalog and the users are empty.
InitEmpty ==
    /\ admins = {1}
    /\ users = {}
    /\ subjects = {}
    /\ chapters = {}
    /\ quizzes = {}
    /\ questions = {}
    /\ scores = {}
    /\ tokens = {}
    /\ session = [user_id |-> None, admin |-> FALSE]
    /\ now = 0
    /\ inflight = {}
    /\ redis_client = "up"
    /\ cache = EmptyCache
    /\ resp = [op |-> "none", status |-> 0]

\* Time passes.
Tick ==
    /\ now < MaxTime
    /\ now' = now + 1
    /\ UNCHANGED <<dbVars, tokens, session, inflight, redis_client, cache, resp>>

UserNames == 1..MaxNames

\* A client keeps the token a response carries.
Hold(tok) == tokens' = tokens \cup {tok}

CanHold == Cardinality(tokens) < MaxTokens

\* The row a credentials query matches, if any: the request's username and
\* password decide, and a request can present any row's or nobody's.
Matches(rows) == rows \cup {None}

\* ------------------------------------------------ routes/auth_v2.py: register
register(username, well_formed) ==
    /\ IF ~well_formed
       THEN /\ resp' = [op |-> "register", status |-> 400]
            /\ UNCHANGED <<users, tokens>>
       ELSE IF \E u \in users : u.username = username
       THEN /\ resp' = [op |-> "register", status |-> 409]
            /\ UNCHANGED <<users, tokens>>
       ELSE /\ NextId(users) <= MaxUserId
            /\ CanHold
            /\ users' = users \cup {[id |-> NextId(users), username |-> username]}
            /\ Hold(create_access_token(NextId(users), FALSE, DefaultLifetime))
            /\ resp' = [op |-> "register", status |-> 201]
    /\ UNCHANGED <<admins, subjects, chapters, quizzes, questions, scores,
                   session, now, inflight, redis_client, cache>>

\* --------------------------------------------------- routes/auth_v2.py: login
login(user_id, has_fields) ==
    /\ IF ~has_fields
       THEN /\ resp' = [op |-> "login", status |-> 400]
            /\ UNCHANGED tokens
       ELSE IF user_id = None
       THEN /\ resp' = [op |-> "login", status |-> 401]
            /\ UNCHANGED tokens
       ELSE /\ CanHold
            /\ Hold(create_access_token(user_id, FALSE, DefaultLifetime))
            /\ resp' = [op |-> "login", status |-> 200]
    /\ UNCHANGED <<dbVars, session, now, inflight, redis_client, cache>>

\* ---------------------------------------------- routes/admin.py: admin_login
admin_login(admin_id, has_fields) ==
    /\ IF ~has_fields
       THEN /\ resp' = [op |-> "admin_login", status |-> 400]
            /\ UNCHANGED tokens
       ELSE IF admin_id = None
       THEN /\ resp' = [op |-> "admin_login", status |-> 401]
            /\ UNCHANGED tokens
       ELSE /\ CanHold
            /\ Hold(create_access_token(admin_id, TRUE, DefaultLifetime))
            /\ resp' = [op |-> "admin_login", status |-> 200]
    /\ UNCHANGED <<dbVars, session, now, inflight, redis_client, cache>>

\* A guard's rejection as the response of route op.
Rejected(op, tok, g) ==
    [op |-> op, tok |-> tok, at |-> now, ran |-> FALSE, status |-> g.status,
     message |-> g.message]

\* The response of a handler that ran.
Handled(op, tok, status, message) ==
    [op |-> op, tok |-> tok, at |-> now, ran |-> TRUE, status |-> status,
     message |-> message]

\* -------------------------------------------- routes/auth_v2.py: verify_token
verify_token(tok) ==
    /\ resp' = IF ~jwt_required(tok).pass
               THEN Rejected("verify_token", tok, jwt_required(tok))
               ELSE IF get_jwt_identity(tok) \notin Ids(users)
               THEN Handled("verify_token", tok, 404, "User not found")
               ELSE Handled("verify_token", tok, 200, "Token is valid")
    /\ UNCHANGED <<dbVars, tokens, session, now, inflight, redis_client, cache>>

\* ----------------------------------- routes/export.py: export_admin_quiz_data
\* Guarded by jwt_required and then by admin_required of auth/jwt_utils.py;
\* queue_ok is whether celery.send_task returns.
export_admin_quiz_data(tok, queue_ok) ==
    /\ resp' = IF ~jwt_required(tok).pass
               THEN Rejected("export_admin_quiz_data", tok, jwt_required(tok))
               ELSE IF ~jwt_utils_admin_required(tok).pass
               THEN Rejected("export_admin_quiz_data", tok, jwt_utils_admin_required(tok))
               ELSE IF queue_ok
               THEN Handled("export_admin_quiz_data", tok, 202, "Export task started")
               ELSE Handled("export_admin_quiz_data", tok, 500, "Failed to start export task")
    /\ UNCHANGED <<dbVars, tokens, session, now, inflight, redis_client, cache>>

\* ------------------------------------------- the token subsystem on its own
NextToken ==
    \/ Tick
    \/ \E n \in UserNames, wf \in BOOLEAN : register(n, wf)
    \/ \E u \in Matches(Ids(users)), hf \in BOOLEAN : login(u, hf)
    \/ \E a \in Matches(admins), hf \in BOOLEAN : admin_login(a, hf)
    \/ \E tok \in Headers : verify_token(tok)
    \/ \E tok \in Headers, ok \in BOOLEAN : export_admin_quiz_data(tok, ok)

SpecToken == InitEmpty /\ [][NextToken]_vars

\* ------------------------------------------------------ request bodies
\* A submitted answer: a JSON number, a string of digits, or a string that
\* is no number.
AnswerValues ==
    [t : {"int", "str"}, v : 1..MaxOption] \cup {[t |-> "bad", v |-> 0]}

\* Python's int() of an answer; it raises for the string that is no number.
IntRaises(a) == a.t = "bad"
IntOf(a) == a.v

\* The answer maps that answer some of the questions Q (keys are
\* str(question.id)).
AnswerMaps(Q) == UNION {[D -> AnswerValues] : D \in SUBSET Q}

NoAnswers == [q \in {} |-> 0]

\* A JSON body: null, an object without the key 'answers', an object with
\* an empty array under it, or an object with an answer map under it.
Bodies(Q) ==
    {[kind |-> k, answers |-> NoAnswers] : k \in {"null", "object", "array"}}
        \cup {[kind |-> "answers", answers |-> m] : m \in AnswerMaps(Q)}

\* 'answers' in data, for a body that is an object.
HasAnswers(data) == data.kind \in {"answers", "array"}

\* ----------------------------------------------------- queries on the rows
QuizQuestions(quiz_id) == {q \in questions : q.quiz_id = quiz_id}

UserScores(user_id, quiz_id) ==
    {s \in scores : s.user_id = user_id /\ s.quiz_id = quiz_id}

\* SerializerMixin.to_dict: every column but the excluded ones.
to_dict(row, exclude) == [k \in DOMAIN row \ exclude |-> row[k]]

\* A mutant of the insert: a row for a (user, quiz) pair that has one is
\* dropped, as under a uniqueness constraint with INSERT OR IGNORE.
add_score_unique(rows, score) ==
    IF \E r \in rows : r.user_id = score.user_id /\ r.quiz_id = score.quiz_id
    THEN rows
    ELSE rows \cup {score}

\* db.session.add(score); db.session.commit(): the Score table has no
\* uniqueness constraint.
add_score(rows, score) == rows \cup {score}

\* A mutant of the stripping: the quiz's id is deleted instead.
del_quiz_id(q_dict) == [k \in DOMAIN q_dict \ {"quiz_id"} |-> q_dict[k]]

\* del q_dict['correct_option'], when the key is there.
del_correct_option(q_dict) == [k \in DOMAIN q_dict \ {"correct_option"} |-> q_dict[k]]

\* What the request found and changed, kept with the response.
Inserted(rows_before, rows_after) == Cardinality(rows_after \ rows_before)

AttemptResp(op, user_id, quiz_id, data, status, message, score, date, inserted) ==
    [op |-> op, user_id |-> user_id, quiz_id |-> quiz_id, data |-> data,
     attempts |-> Cardinality(UserScores(user_id, quiz_id)),
     status |-> status, message |-> message, score |-> score, date |-> date,
     inserted |-> inserted]

\* A mutant of the v2 scoring loop: a question without an answer counts as
\* correct.
CorrectAnswersOfAnswered(qs, answers) ==
    Cardinality({q \in qs : q.id \in DOMAIN answers /\ IntOf(answers[q.id]) = q.correct_option})
        + Cardinality({q \in qs : q.id \notin DOMAIN answers})

\* The v2 scoring loop: the questions answered with int(answer) equal to
\* correct_option.
CorrectAnswers(qs, answers) ==
    Cardinality({q \in qs : q.id \in DOMAIN answers /\ IntOf(answers[q.id]) = q.correct_option})

\* Whether the loop raises: int() of an answer to one of the quiz's questions.
ScoringRaises(qs, answers) ==
    \E q \in qs : q.id \in DOMAIN answers /\ IntRaises(answers[q.id])

\* A mutant of the duplicate-attempt check: it looks for the user's Score
\* for any other quiz.
ExistingScoresOtherQuiz(user_id, quiz_id) ==
    {s \in scores : s.user_id = user_id /\ s.quiz_id # quiz_id}

\* Score.query.filter_by(user_id, quiz_id): first() returns one of these.
ExistingScores(user_id, quiz_id) == UserScores(user_id, quiz_id)

\* A mutant of the lookup: any quiz row is found for any id.
Quiz_query_any(quiz_id) == quizzes

\* Quiz.query.get(quiz_id): the row with that id, if there is one.
Quiz_query_get(quiz_id) == {z \in quizzes : z.id = quiz_id}

\* ------------------------------------- routes/quiz.py: submit_quiz_attempt
\* The response loop after the commit calls answers.get, which an array
\* does not have: the row is stored and the answer is the handler's 500.
submit_quiz_attempt(tok, quiz_id, data) ==
    LET user_id == get_jwt_identity(tok)
        op == "submit_quiz_attempt"
        qs == QuizQuestions(quiz_id)
        err(status, message) ==
            /\ resp' = AttemptResp(op, user_id, quiz_id, data, status, message,
                                   NoPct, NoDate, 0)
            /\ UNCHANGED <<scores, cache>>
    IN
    /\ IF ~jwt_required(tok).pass
       THEN err(jwt_required(tok).status, jwt_required(tok).message)
       ELSE IF ~HasAnswers(data)
       THEN err(400, "No answers provided")
       ELSE IF Quiz_query_get(quiz_id) = {}
       THEN err(404, "Quiz not found")
       ELSE IF ExistingScores(user_id, quiz_id) # {}
       THEN /\ \E existing_score \in ExistingScores(user_id, quiz_id) :
                  resp' = AttemptResp(op, user_id, quiz_id, data, 400,
                                      "You have already attempted this quiz",
                                      existing_score.total_scored,
                                      existing_score.time_stamp_of_attempt, 0)
            /\ UNCHANGED <<scores, cache>>
       ELSE IF qs = {}
       THEN err(404, "No questions found for this quiz")
       ELSE IF ScoringRaises(qs, data.answers)
       THEN err(500, "invalid literal for int()")
       ELSE LET score_percentage ==
                    Percentage(CorrectAnswers(qs, data.answers), Cardinality(qs))
                new_score == [id |-> NextId(scores), user_id |-> user_id,
                              quiz_id |-> quiz_id, total_scored |-> score_percentage,
                              time_stamp_of_attempt |-> now]
            IN /\ Cardinality(scores) < MaxScores
               /\ scores' = add_score(scores, new_score)
               /\ cache' = IF is_redis_available
                           THEN invalidate_model_cache(
                                    invalidate_model_cache(cache, "quiz", quiz_id),
                                    "dashboard", 0)
                           ELSE cache
               /\ resp' = IF data.kind = "array"
                          THEN AttemptResp(op, user_id, quiz_id, data, 500,
                                           "'list' object has no attribute 'get'",
                                           NoPct, NoDate, Inserted(scores, scores'))
                          ELSE AttemptResp(op, user_id, quiz_id, data, 200,
                                           "Quiz submitted successfully", score_percentage,
                                           NoDate, Inserted(scores, scores'))
    /\ UNCHANGED <<admins, users, subjects, chapters, quizzes, questions,
                   tokens, session, now, inflight, redis_client>>

\* ------------------------------------- routes/quiz.py: get_quiz_questions
get_quiz_questions(tok, quiz_id) ==
    LET user_id == get_jwt_identity(tok)
        op == "get_quiz_questions"
        user_score == ExistingScores(user_id, quiz_id)
        questions_data ==
            IF user_score = {}
            THEN {del_correct_option(to_dict(q, {})) : q \in QuizQuestions(quiz_id)}
            ELSE {to_dict(q, {}) : q \in QuizQuestions(quiz_id)}
    IN
    /\ resp' = IF ~jwt_required(tok).pass
               THEN [op |-> op, user_id |-> user_id, quiz_id |-> quiz_id,
                     attempts |-> Cardinality(UserScores(user_id, quiz_id)),
                     status |-> jwt_required(tok).status, questions |-> {},
                     has_attempted |-> FALSE]
               ELSE IF quiz_id \notin Ids(quizzes)
               THEN [op |-> op, user_id |-> user_id, quiz_id |-> quiz_id,
                     attempts |-> Cardinality(UserScores(user_id, quiz_id)),
                     status |-> 404, questions |-> {}, has_attempted |-> FALSE]
               ELSE [op |-> op, user_id |-> user_id, quiz_id |-> quiz_id,
                     attempts |-> Cardinality(UserScores(user_id, quiz_id)),
                     status |-> 200, questions |-> questions_data,
                     has_attempted |-> user_score # {}]
    /\ UNCHANGED <<dbVars, tokens, session, now, inflight, redis_client, cache>>

\* ------------------------------------------------ routes/auth.py (legacy)
\* login: a matching User row sets session['user_id']; otherwise a matching
\* Admin row sets session['admin'].  Neither clears the other key.
legacy_login(user_id, admin_id, has_fields) ==
    /\ IF ~has_fields
       THEN /\ resp' = [op |-> "legacy_login", status |-> 400]
            /\ UNCHANGED session
       ELSE IF user_id # None
       THEN /\ session' = [session EXCEPT !.user_id = user_id]
            /\ resp' = [op |-> "legacy_login", status |-> 200]
       ELSE IF admin_id # None
       THEN /\ session' = [session EXCEPT !.admin = TRUE]
            /\ resp' = [op |-> "legacy_login", status |-> 200]
       ELSE /\ resp' = [op |-> "legacy_login", status |-> 401]
            /\ UNCHANGED session
    /\ UNCHANGED <<dbVars, tokens, now, inflight, redis_client, cache>>

\* A mutant of logout: only the user's key is popped.
logout_user_only ==
    /\ session' = [session EXCEPT !.user_id = None]
    /\ resp' = [op |-> "logout", status |-> 200]
    /\ UNCHANGED <<dbVars, tokens, now, inflight, redis_client, cache>>

logout ==
    /\ session' = [user_id |-> None, admin |-> FALSE]
    /\ resp' = [op |-> "logout", status |-> 200]
    /\ UNCHANGED <<dbVars, tokens, now, inflight, redis_client, cache>>

\* The legacy comparison str(q.correct_option) == answers.get(str(q.id)):
\* only a string of the same digits is equal.
LegacyCorrect(qs, answers) ==
    Cardinality({q \in qs : /\ q.id \in DOMAIN answers
                            /\ answers[q.id].t = "str"
                            /\ answers[q.id].v = q.correct_option})

\* submit_quiz: data.get raises for a null body, and answers.get for an
\* array as soon as there is a question to compare; nothing is stored then.
submit_quiz(quiz_id, data) ==
    LET user_id == session.user_id
        op == "submit_quiz"
        qs == QuizQuestions(quiz_id)
        total_scored == Percentage(LegacyCorrect(qs, data.answers), Cardinality(qs))
        score == [id |-> NextId(scores), user_id |-> user_id, quiz_id |-> quiz_id,
                  total_scored |-> total_scored, time_stamp_of_attempt |-> now]
    IN
    /\ IF user_id = None
       THEN /\ resp' = AttemptResp(op, user_id, quiz_id, data, 403, "Please log in",
                                   NoPct, NoDate, 0)
            /\ UNCHANGED scores
       ELSE IF data.kind = "null" \/ (data.kind = "array" /\ qs # {})
       THEN /\ resp' = AttemptResp(op, user_id, quiz_id, data, 500, "AttributeError",
                                   NoPct, NoDate, 0)
            /\ UNCHANGED scores
       ELSE /\ Cardinality(scores) < MaxScores
            /\ scores' = add_score(scores, score)
            /\ resp' = AttemptResp(op, user_id, quiz_id, data, 200, "Quiz submitted",
                                   total_scored, NoDate, Inserted(scores, scores'))
    /\ UNCHANGED <<admins, users, subjects, chapters, quizzes, questions,
                   tokens, session, now, inflight, redis_client, cache>>

\* ------------------------------------------- the attempt flows on their own
\* The Question tables the admin routes can have built over the quizzes Z:
\* ids 1..n, each row in one of the quizzes with one of the options correct.
QuestionSets(Z) ==
    UNION {
        {{[id |-> i, quiz_id |-> quiz[i], correct_option |-> opt[i]] : i \in 1..n} :
            quiz \in [1..n -> Z], opt \in [1..n -> 1..MaxOption]} :
        n \in 0..MaxQuestions}

\* A catalog the admin routes built, n_users registered users, each
\* holding the token of a login at time 0, nobody logged in to the legacy
\* session, and the cache handle in one of the given conditions.
InitCatalog(n_users, handles) ==
    /\ admins = {1}
    /\ users = {[id |-> i, username |-> i] : i \in 1..n_users}
    /\ subjects = {[id |-> 1, name |-> 1]}
    /\ chapters = {[id |-> 1, name |-> 1, subject_id |-> 1]}
    /\ quizzes = {[id |-> i, chapter_id |-> 1] : i \in 1..MaxQuizId}
    /\ questions \in QuestionSets(1..MaxQuizId)
    /\ scores = {}
    /\ now = 0
    /\ inflight = {}
    /\ tokens = {create_access_token(i, FALSE, DefaultLifetime) : i \in 1..n_users}
    /\ session = [user_id |-> None, admin |-> FALSE]
    /\ redis_client \in handles
    /\ cache = EmptyCache
    /\ resp = [op |-> "none", status |-> 0]

InitAttempt == InitCatalog(MaxUserId, {"up"})

\* The quiz ids a request can name: the quizzes and one id that is none.
QuizIds == 1..(MaxQuizId + 1)

NextV2 ==
    \/ Tick
    \/ \E tok \in Headers, q \in QuizIds, data \in Bodies({1}) :
           submit_quiz_attempt(tok, q, data)
    \/ \E tok \in Headers, q \in QuizIds : get_quiz_questions(tok, q)

NextAttempt ==
    \/ Tick
    \/ \E tok \in Headers, q \in QuizIds, data \in Bodies({}) :
           submit_quiz_attempt(tok, q, data)
    \/ \E u \in Matches(Ids(users)), a \in Matches(admins), hf \in BOOLEAN :
           legacy_login(u, a, hf)
    \/ logout
    \/ \E q \in QuizIds, data \in Bodies({}) : submit_quiz(q, data)

SpecV2 == InitAttempt /\ [][NextV2]_vars

\* The legacy and the v2 submission side by side, for one user.
InitLegacy == InitCatalog(1, {"up"})

SpecAttempt == InitLegacy /\ [][NextAttempt]_vars

\* ------------------------------------------------------ scoring on its own
\* One user, every answer map over the questions, the cache handle there
\* or absent.
InitScoring == InitCatalog(1, {"none", "up"})

NextScoring ==
    \E tok \in tokens, data \in Bodies(1..MaxQuestions) : submit_quiz_attempt(tok, 1, data)

SpecScoring == InitScoring /\ [][NextScoring]_vars

\* ------------------------------------------- routes/admin.py: the catalog
\* The rows a request removed, over all the tables.
RowsRemoved ==
    Cardinality(users \ users') + Cardinality(subjects \ subjects')
        + Cardinality(chapters \ chapters') + Cardinality(quizzes \ quizzes')
        + Cardinality(questions \ questions') + Cardinality(scores \ scores')

\* The response of an admin route: the guard's verdict (ran), the row the
\* request named, the rows that row owned when the request came, and what
\* the request removed.
AdminResp(op, tok, answer, target, found, children, gone) ==
    [op |-> op, tok |-> tok, ran |-> admin_required(tok).pass,
     status |-> answer.status, message |-> answer.message,
     target |-> target, found |-> found, children |-> children,
     removed |-> RowsRemoved, gone |-> gone]

\* The answer of a route behind the local guard: the guard's, or the
\* handler's.
Guarded(tok, answer) == IF admin_required(tok).pass THEN answer ELSE admin_required(tok)

Answer(status, message) == [pass |-> TRUE, status |-> status, message |-> message]

\* The ids a request can name in a table capped at MaxRows rows.
RowIds == 1..MaxRows

create_subject(tok, name) ==
    LET answer == IF name = None THEN Answer(400, "Subject name is required")
                  ELSE IF \E x \in subjects : x.name = name
                  THEN Answer(409, "Subject already exists")
                  ELSE Answer(201, "Subject created successfully")
        done == Guarded(tok, answer).status = 201
    IN
    /\ done => NextId(subjects) <= MaxRows
    /\ subjects' = IF done THEN subjects \cup {[id |-> NextId(subjects), name |-> name]}
                   ELSE subjects
    /\ UNCHANGED <<admins, users, chapters, quizzes, questions, scores>>
    /\ resp' = AdminResp("create_subject", tok, Guarded(tok, answer), None, FALSE, 0, FALSE)
    /\ UNCHANGED <<tokens, session, now, inflight, redis_client, cache>>

\* A mutant of the relationship: no row is found.
NoChapters(subject_id) == {}

\* subject.chapters: the Chapter rows whose subject_id is the subject's id.
SubjectChapters(subject_id) == {c \in chapters : c.subject_id = subject_id}

delete_subject(tok, subject_id) ==
    LET answer == IF subject_id \notin Ids(subjects) THEN Answer(404, "Subject not found")
                  ELSE IF SubjectChapters(subject_id) # {}
                  THEN Answer(400, "Cannot delete subject with existing chapters")
                  ELSE Answer(200, "Subject deleted successfully")
        done == Guarded(tok, answer).status = 200
    IN
    /\ subjects' = IF done THEN {x \in subjects : x.id # subject_id} ELSE subjects
    /\ UNCHANGED <<admins, users, chapters, quizzes, questions, scores>>
    /\ resp' = AdminResp("delete_subject", tok, Guarded(tok, answer), subject_id,
                         subject_id \in Ids(subjects),
                         Cardinality({c \in chapters : c.subject_id = subject_id}),
                         subject_id \in Ids(subjects) \ Ids(subjects'))
    /\ UNCHANGED <<tokens, session, now, inflight, redis_client, cache>>

create_chapter(tok, name, subject_id) ==
    LET answer == IF name = None
                  THEN Answer(400, "Chapter name and subject_id are required")
                  ELSE IF subject_id \notin Ids(subjects) THEN Answer(404, "Subject not found")
                  ELSE IF \E c \in chapters : c.name = name /\ c.subject_id = subject_id
                  THEN Answer(409, "Chapter already exists in this subject")
                  ELSE Answer(201, "Chapter created successfully")
        done == Guarded(tok, answer).status = 201
    IN
    /\ done => NextId(chapters) <= MaxRows
    /\ chapters' = IF done
                   THEN chapters \cup {[id |-> NextId(chapters), name |-> name,
                                        subject_id |-> subject_id]}
                   ELSE chapters
    /\ UNCHANGED <<admins, users, subjects, quizzes, questions, scores>>
    /\ resp' = AdminResp("create_chapter", tok, Guarded(tok, answer), None, FALSE, 0, FALSE)
    /\ UNCHANGED <<tokens, session, now, inflight, redis_client, cache>>

\* chapter.quizzes
ChapterQuizzes(chapter_id) == {z \in quizzes : z.chapter_id = chapter_id}

delete_chapter(tok, chapter_id) ==
    LET answer == IF chapter_id \notin Ids(chapters) THEN Answer(404, "Chapter not found")
                  ELSE IF ChapterQuizzes(chapter_id) # {}
                  THEN Answer(400, "Cannot delete chapter with existing quizzes")
                  ELSE Answer(200, "Chapter deleted successfully")
        done == Guarded(tok, answer).status = 200
    IN
    /\ chapters' = IF done THEN {c \in chapters : c.id # chapter_id} ELSE chapters
    /\ UNCHANGED <<admins, users, subjects, quizzes, questions, scores>>
    /\ resp' = AdminResp("delete_chapter", tok, Guarded(tok, answer), chapter_id,
                         chapter_id \in Ids(chapters),
                         Cardinality({z \in quizzes : z.chapter_id = chapter_id}),
                         chapter_id \in Ids(chapters) \ Ids(chapters'))
    /\ UNCHANGED <<tokens, session, now, inflight, redis_client, cache>>

\* create_quiz: strptime raises for a date that is not %Y-%m-%d, after the
\* chapter was looked up; the handler answers 500 and stores nothing.
create_quiz(tok, chapter_id, date_ok) ==
    LET answer == IF chapter_id = None
                  THEN Answer(400, "Chapter ID, date, and time duration are required")
                  ELSE IF chapter_id \notin Ids(chapters) THEN Answer(404, "Chapter not found")
                  ELSE IF ~date_ok THEN Answer(500, "time data does not match format")
                  ELSE Answer(201, "Quiz created successfully")
        done == Guarded(tok, answer).status = 201
    IN
    /\ done => NextId(quizzes) <= MaxQuizId
    /\ quizzes' = IF done
                  THEN quizzes \cup {[id |-> NextId(quizzes), chapter_id |-> chapter_id]}
                  ELSE quizzes
    /\ UNCHANGED <<admins, users, subjects, chapters, questions, scores>>
    /\ resp' = AdminResp("create_quiz", tok, Guarded(tok, answer), None, FALSE, 0, FALSE)
    /\ UNCHANGED <<tokens, session, now, inflight, redis_client, cache>>

\* quiz.scores
QuizScores(quiz_id) == {x \in scores : x.quiz_id = quiz_id}

\* delete_quiz: the delete cascades to the quiz's questions.
delete_quiz(tok, quiz_id) ==
    LET answer == IF quiz_id \notin Ids(quizzes) THEN Answer(404, "Quiz not found")
                  ELSE IF QuizScores(quiz_id) # {}
                  THEN Answer(400, "Cannot delete quiz with existing attempts")
                  ELSE Answer(200, "Quiz deleted successfully")
        done == Guarded(tok, answer).status = 200
    IN
    /\ quizzes' = IF done THEN {z \in quizzes : z.id # quiz_id} ELSE quizzes
    /\ questions' = IF done THEN {q \in questions : q.quiz_id # quiz_id} ELSE questions
    /\ scores' = IF done THEN scores \ QuizScores(quiz_id) ELSE scores
    /\ UNCHANGED <<admins, users, subjects, chapters>>
    /\ resp' = AdminResp("delete_quiz", tok, Guarded(tok, answer), quiz_id,
                         quiz_id \in Ids(quizzes),
                         Cardinality({x \in scores : x.quiz_id = quiz_id}),
                         quiz_id \in Ids(quizzes) \ Ids(quizzes'))
    /\ UNCHANGED <<tokens, session, now, inflight, redis_client, cache>>

\* create_question: correct_option has to be one of 1..4 (0 stands for a
\* number that is not).
create_question(tok, quiz_id, correct_option) ==
    LET answer == IF quiz_id = None
                  THEN Answer(400, "Quiz ID and question statement are required")
                  ELSE IF quiz_id \notin Ids(quizzes) THEN Answer(404, "Quiz not found")
                  ELSE IF correct_option \notin 1..4
                  THEN Answer(400, "Correct option must be 1, 2, 3, or 4")
                  ELSE Answer(201, "Question created successfully")
        done == Guarded(tok, answer).status = 201
    IN
    /\ done => NextId(questions) <= MaxQuestions
    /\ questions' = IF done
                    THEN questions \cup {[id |-> NextId(questions), quiz_id |-> quiz_id,
                                          correct_option |-> correct_option]}
                    ELSE questions
    /\ UNCHANGED <<admins, users, subjects, chapters, quizzes, scores>>
    /\ resp' = AdminResp("create_question", tok, Guarded(tok, answer), None, FALSE, 0, FALSE)
    /\ UNCHANGED <<tokens, session, now, inflight, redis_client, cache>>

\* ------------------------------------------- the admin routes on their own
\* The users have registered and the admin has logged in, all at time 0;
\* the catalog is still empty.
InitAdmin ==
    /\ admins = {1}
    /\ users = {[id |-> i, username |-> i] : i \in 1..MaxUserId}
    /\ subjects = {}
    /\ chapters = {}
    /\ quizzes = {}
    /\ questions = {}
    /\ scores = {}
    /\ now = 0
    /\ inflight = {}
    /\ tokens = {create_access_token(i, FALSE, DefaultLifetime) : i \in 1..MaxUserId}
                    \cup {create_access_token(a, TRUE, DefaultLifetime) : a \in admins}
    /\ session = [user_id |-> None, admin |-> FALSE]
    /\ redis_client = "up"
    /\ cache = EmptyCache
    /\ resp = [op |-> "none", status |-> 0]

\* The catalog is built and taken down by the holders of the tokens, and
\* users attempt the quizzes.
NextAdmin ==
    \/ \E tok \in tokens, n \in Matches(UserNames) : create_subject(tok, n)
    \/ \E tok \in tokens, x \in RowIds : delete_subject(tok, x)
    \/ \E tok \in tokens, n \in Matches({1}), x \in RowIds : create_chapter(tok, n, x)
    \/ \E tok \in tokens, c \in RowIds : delete_chapter(tok, c)
    \/ \E tok \in tokens, c \in Matches(RowIds), ok \in BOOLEAN : create_quiz(tok, c, ok)
    \/ \E tok \in tokens, z \in QuizIds : delete_quiz(tok, z)
    \/ \E tok \in tokens, z \in Matches(QuizIds), o \in {0, 1} : create_question(tok, z, o)
    \/ \E tok \in tokens, z \in QuizIds :
           submit_quiz_attempt(tok, z, [kind |-> "answers", answers |-> NoAnswers])

SpecAdmin == InitAdmin /\ [][NextAdmin]_vars

\* ---------------------------------- routes/admin.py: import_subjects_csv
\* A data row of the file is the value under its 'name' column: None when
\* the column is missing or empty.  DictReader yields the data rows in order.
CsvFiles == UNION {[1..n -> Matches(UserNames)] : n \in 0..MaxCsvRows}

\* The upload: no file part, a file part without a name, a file whose name
\* does not end in .csv, or a CSV file.
Uploads ==
    {[kind |-> k, rows |-> <<>>] : k \in {"none", "unnamed", "not_csv"}}
        \cup {[kind |-> "csv", rows |-> r] : r \in CsvFiles}

\* A mutant of the numbering: the first data row is row 1.
RowNumberFromOne(i) == i

\* enumerate(csv_reader, start=2): the number of the i-th data row.
RowNumber(i) == i + 1

\* The error string f"Row {row_num}: ...".
RowError(row_num, text, name) == [row |-> row_num, text |-> text, name |-> name]

\* One turn of the loop.  The query for an existing subject flushes the
\* session first, so it sees the rows added earlier in the file.
import_row(acc, row_num, name) ==
    IF name = None
    THEN [acc EXCEPT !.errors = Append(@, RowError(row_num, "Subject name is required", None))]
    ELSE IF \E x \in subjects \cup acc.pending : x.name = name
    THEN [acc EXCEPT !.errors = Append(@, RowError(row_num, "already exists", name))]
    ELSE [acc EXCEPT !.pending = @ \cup {[id |-> NextId(subjects \cup acc.pending),
                                          name |-> name]},
                     !.imported_count = @ + 1]

RECURSIVE import_rows(_, _, _)
import_rows(rows, i, acc) ==
    IF i > Len(rows) THEN acc
    ELSE import_rows(rows, i + 1, import_row(acc, RowNumber(i), rows[i]))

import_subjects_csv(tok, upload) ==
    LET op == "import_subjects_csv"
        g == admin_required(tok)
        done == import_rows(upload.rows, 1, [pending |-> {}, imported_count |-> 0,
                                             errors |-> <<>>])
        refused(answer) ==
            /\ UNCHANGED subjects
            /\ resp' = [op |-> op, tok |-> tok, ran |-> g.pass, status |-> answer.status,
                        message |-> answer.message, upload |-> upload,
                        names_before |-> {x.name : x \in subjects}, added |-> {},
                        imported_count |-> 0, errors |-> <<>>]
    IN
    /\ IF ~g.pass THEN refused(g)
       ELSE IF upload.kind = "none" THEN refused(Answer(400, "No file uploaded"))
       ELSE IF upload.kind = "unnamed" THEN refused(Answer(400, "No file selected"))
       ELSE IF upload.kind = "not_csv" THEN refused(Answer(400, "File must be a CSV"))
       ELSE /\ subjects' = subjects \cup done.pending
            /\ resp' = [op |-> op, tok |-> tok, ran |-> TRUE, status |-> 200,
                        message |-> "Successfully imported", upload |-> upload,
                        names_before |-> {x.name : x \in subjects},
                        added |-> subjects' \ subjects,
                        imported_count |-> done.imported_count, errors |-> done.errors]
    /\ UNCHANGED <<admins, users, chapters, quizzes, questions, scores,
                   tokens, session, now, inflight, redis_client, cache>>

\* ------------------------------------------------- the import on its own
NextImport ==
    \/ \E tok \in Headers, upload \in Uploads : import_subjects_csv(tok, upload)
    \/ \E tok \in tokens, n \in UserNames : create_subject(tok, n)
    \/ \E tok \in tokens, x \in RowIds : delete_subject(tok, x)

SpecImport == InitAdmin /\ [][NextImport]_vars

\* -------------------------------------------- routes/quiz.py: get_subjects
\* The handler's own answer: every Subject row.
get_subjects_fresh == [status |-> 200, subjects |-> {to_dict(x, {}) : x \in subjects}]

\* The key cached_response builds for it: "quiz:get_subjects".
get_subjects_key == Key("quiz", "get_subjects", 0)

\* get_subjects behind jwt_required and cached_response.
get_subjects(tok) ==
    LET g == jwt_required(tok)
        answered == cached_response(get_subjects_key, get_subjects_fresh)
    IN
    /\ IF ~g.pass
       THEN /\ resp' = [op |-> "get_subjects", status |-> g.status, body |-> CacheMiss,
                        fresh |-> get_subjects_fresh]
            /\ UNCHANGED cache
       ELSE /\ cache' = answered.store
            /\ resp' = [op |-> "get_subjects", status |-> answered.result.status,
                        body |-> answered.result, fresh |-> get_subjects_fresh]
    /\ UNCHANGED <<dbVars, tokens, session, now, inflight, redis_client>>

\* ------------------------------------------------ RedisCache, called directly
\* A call of one of RedisCache's methods: what it returned and the store it
\* left.
CacheCall(method, key, value) ==
    LET result == IF method = "get" THEN RedisCache_get(key)
                  ELSE IF method = "set" THEN RedisCache_set_ok
                  ELSE IF method = "delete" THEN RedisCache_delete_result(cache, key)
                  ELSE RedisCache_flush_pattern_result(cache, Pattern(key.prefix, key.name, 0))
        store == IF method = "get" THEN cache
                 ELSE IF method = "set" THEN RedisCache_set(cache, key, value)
                 ELSE IF method = "delete" THEN RedisCache_delete(cache, key)
                 ELSE RedisCache_flush_pattern(cache, Pattern(key.prefix, key.name, 0))
    IN
    /\ cache' = store
    /\ resp' = [op |-> "RedisCache", method |-> method, result |-> result,
                changed |-> store # cache]
    /\ UNCHANGED <<dbVars, tokens, session, now, inflight, redis_client>>

Methods == {"get", "set", "delete", "flush_pattern"}

\* ---------------------------------------------------- the cache on its own
\* What an earlier run may have left under the subjects key.
StaleSubjects == [status |-> 200, subjects |-> {}]

\* One user and the admin hold tokens; the server may hold an entry an
\* earlier run left; the handle is absent, unreachable or working.
InitCache ==
    /\ admins = {1}
    /\ users = {[id |-> 1, username |-> 1]}
    /\ subjects = {[id |-> 1, name |-> 1]}
    /\ chapters = {[id |-> 1, name |-> 1, subject_id |-> 1]}
    /\ quizzes = {[id |-> 1, chapter_id |-> 1]}
    /\ questions = {[id |-> 1, quiz_id |-> 1, correct_option |-> 1]}
    /\ scores = {}
    /\ now = 0
    /\ inflight = {}
    /\ tokens = {create_access_token(1, FALSE, DefaultLifetime),
                 create_access_token(1, TRUE, DefaultLifetime)}
    /\ session = [user_id |-> None, admin |-> FALSE]
    /\ redis_client \in {"none", "down", "up"}
    /\ cache \in {EmptyCache, [k \in {get_subjects_key} |-> StaleSubjects]}
    /\ resp = [op |-> "none", status |-> 0]

NextCache ==
    \/ \E tok \in Headers : get_subjects(tok)
    \/ \E tok \in tokens, n \in UserNames : create_subject(tok, n)
    \/ \E tok \in tokens, x \in RowIds : delete_subject(tok, x)
    \/ \E m \in Methods, v \in {StaleSubjects, get_subjects_fresh} :
           CacheCall(m, get_subjects_key, v)
    \/ \E tok \in tokens, data \in Bodies({1}) : submit_quiz_attempt(tok, 1, data)

SpecCache == InitCache /\ [][NextCache]_vars

\* ------------------------- routes/user_activity.py: _get_user_achievements
\* Score.query.filter_by(user_id=user_id).all()
ScoresOf(user_id) == {x \in scores : x.user_id = user_id}

Min(S) == CHOOSE x \in S : \A y \in S : x <= y

\* A mutant of the unlock date: the latest attempt.
LatestAttempt(rows) == Max({x.time_stamp_of_attempt : x \in rows})

\* min(scores, key=time_stamp_of_attempt).time_stamp_of_attempt
EarliestAttempt(rows) == Min({x.time_stamp_of_attempt : x \in rows})

\* The 'First Quiz' entry of the list _get_user_achievements builds.
first_quiz(user_id) ==
    IF ScoresOf(user_id) # {}
    THEN [progress |-> 100, unlocked |-> TRUE,
          unlock_date |-> EarliestAttempt(ScoresOf(user_id))]
    ELSE [progress |-> 0, unlocked |-> FALSE, unlock_date |-> NoDate]

\* get_user_achievements behind jwt_required.
get_user_achievements(tok) ==
    LET user_id == get_jwt_identity(tok)
        g == jwt_required(tok)
    IN
    /\ resp' = IF ~g.pass
               THEN [op |-> "get_user_achievements", user_id |-> user_id,
                     status |-> g.status, attempts |-> 0,
                     first_quiz |-> first_quiz(None)]
               ELSE [op |-> "get_user_achievements", user_id |-> user_id,
                     status |-> 200, attempts |-> Cardinality(ScoresOf(user_id)),
                     first_quiz |-> first_quiz(user_id)]
    /\ UNCHANGED <<dbVars, tokens, session, now, inflight, redis_client, cache>>

\* --------------------------------------------- the achievements on their own
\* One user attempts quizzes through both generations of the API, logs in
\* again when the token has run out, and reads the achievements.
NextAchievements ==
    \/ Tick
    \/ \E u \in Ids(users) : login(u, TRUE)
    \/ \E u \in Ids(users) : legacy_login(u, None, TRUE)
    \/ \E tok \in tokens, q \in Ids(quizzes) :
           submit_quiz_attempt(tok, q, [kind |-> "answers", answers |-> NoAnswers])
    \/ \E q \in Ids(quizzes) : submit_quiz(q, [kind |-> "object", answers |-> NoAnswers])
    \/ \E tok \in Headers : get_user_achievements(tok)

SpecAchievements == InitLegacy /\ [][NextAchievements]_vars

\* ------------------------------------------------------- the leaderboards
\* Exact arithmetic on the rationals <<numerator, denominator>>.
RatAdd(a, b) == Rat(a[1] * b[2] + b[1] * a[2], a[2] * b[2])

RatLeq(a, b) == a[1] * b[2] <= b[1] * a[2]

RECURSIVE SumScored(_)
SumScored(rows) ==
    IF rows = {} THEN <<0, 1>>
    ELSE LET x == CHOOSE x \in rows : TRUE
         IN RatAdd(x.total_scored, SumScored(rows \ {x}))

\* func.avg(Score.total_scored) over a user's rows.
AvgScored(rows) ==
    LET total == SumScored(rows) IN Rat(total[1], total[2] * Cardinality(rows))

Pow10(k) == IF k = 0 THEN 1 ELSE IF k = 1 THEN 10 ELSE 100

\* round(avg_score, ndigits): the nearest multiple of 10^-ndigits, a tie to
\* the even one.
Round(r, ndigits) ==
    LET scaled == r[1] * Pow10(ndigits)
        q == scaled \div r[2]
        twice == 2 * (scaled % r[2])
        up == twice > r[2] \/ (twice = r[2] /\ q % 2 = 1)
    IN Rat(IF up THEN q + 1 ELSE q, Pow10(ndigits))

\* .limit(20) and .limit(10)
GlobalLimit == 20
EngagementLimit == 10

\* A mutant of the HAVING clause: one Score is enough for any leaderboard.
RankedWithAny(at_least) == {u \in Ids(users) : ScoresOf(u) # {}}

\* User joined with Score, grouped by user, HAVING count(Score.id) >=
\* at_least: the users in the result.
Ranked(at_least) ==
    {u \in Ids(users) : ScoresOf(u) # {} /\ Cardinality(ScoresOf(u)) >= at_least}

\* ORDER BY average_score DESC LIMIT n: the result sets the query can
\* return (ties at the cut are the database's choice).
TopBy(ranked, n) ==
    {top \in SUBSET ranked :
        /\ Cardinality(top) = IF Cardinality(ranked) < n THEN Cardinality(ranked) ELSE n
        /\ \A a \in top, b \in ranked \ top :
               RatLeq(AvgScored(ScoresOf(b)), AvgScored(ScoresOf(a)))}

BoardEntry(u, ndigits) ==
    [user_id |-> u, average_score |-> Round(AvgScored(ScoresOf(u)), ndigits),
     quizzes_taken |-> Cardinality(ScoresOf(u))]

\* A leaderboard endpoint behind jwt_required and cached_response: the
\* handler's own computation is kept beside the answer.
Leaderboard(op, tok, at_least, limit, ndigits) ==
    LET g == jwt_required(tok)
        key == Key("leaderboard", op, 0)
    IN
    \E top \in TopBy(Ranked(at_least), limit) :
        LET fresh == [status |-> 200,
                      leaderboard |-> {BoardEntry(u, ndigits) : u \in top}]
            answered == cached_response(key, fresh)
        IN
        /\ IF ~g.pass
           THEN /\ resp' = [op |-> op, status |-> g.status, body |-> CacheMiss,
                            fresh |-> [status |-> g.status, leaderboard |-> {}],
                            counts |-> [u \in Ids(users) |-> 0]]
                /\ UNCHANGED cache
           ELSE /\ cache' = answered.store
                /\ resp' = [op |-> op, status |-> answered.result.status,
                            body |-> answered.result, fresh |-> fresh,
                            counts |-> [u \in Ids(users) |->
                                            Cardinality(ScoresOf(u))]]
        /\ UNCHANGED <<dbVars, tokens, session, now, inflight, redis_client>>

\* routes/quiz.py: get_global_leaderboard
get_global_leaderboard(tok) ==
    Leaderboard("get_global_leaderboard", tok, 3, GlobalLimit, 2)

\* routes/user_activity.py: get_leaderboard
get_leaderboard(tok) ==
    Leaderboard("get_leaderboard", tok, 1, EngagementLimit, 1)

\* ----------------------------------------------- the leaderboards on their own
\* The Score tables the attempt routes can have built: ids 1..n, each row a
\* user's (or a since deleted user's) attempt at quiz 1 scored 0, 50 or 100.
ScoreTables ==
    UNION {
        {{[id |-> i, user_id |-> who[i], quiz_id |-> 1, total_scored |-> pct[i],
           time_stamp_of_attempt |-> 0] : i \in 1..n} :
            who \in [1..n -> 1..(MaxUserId + 1)],
            pct \in [1..n -> {<<0, 1>>, <<100, 1>>}]} :
        n \in 0..MaxBoardScores}

InitBoard ==
    /\ admins = {1}
    /\ users = {[id |-> i, username |-> i] : i \in 1..MaxUserId}
    /\ subjects = {[id |-> 1, name |-> 1]}
    /\ chapters = {[id |-> 1, name |-> 1, subject_id |-> 1]}
    /\ quizzes = {[id |-> 1, chapter_id |-> 1]}
    /\ questions = {[id |-> 1, quiz_id |-> 1, correct_option |-> 1]}
    /\ scores \in ScoreTables
    /\ now = 0
    /\ inflight = {}
    /\ tokens = {create_access_token(1, FALSE, DefaultLifetime)}
    /\ session = [user_id |-> 1, admin |-> FALSE]
    /\ redis_client \in {"none", "up"}
    /\ cache = EmptyCache
    /\ resp = [op |-> "none", status |-> 0]

NextBoard ==
    \/ \E tok \in Headers : get_global_leaderboard(tok)
    \/ \E tok \in Headers : get_leaderboard(tok)

SpecBoard == InitBoard /\ [][NextBoard]_vars

\* ------------------------------------------------------------ user reports
\* flask.g as a piece of code finds it: before_request puts the module's
\* handle on it for a request; ContextTask.__call__ pushes an application
\* context of its own, whose g nothing has written to.
flask_g(context) ==
    IF context = "request" THEN [redis_client |-> redis_client]
    ELSE [attr \in {} |-> "none"]

\* RedisCache.is_redis_available() where the caller's g is flask_g(context).
is_redis_available_in(context) ==
    /\ "redis_client" \in DOMAIN flask_g(context)
    /\ flask_g(context).redis_client # "none"

RedisCache_get_in(context, key) ==
    IF ~is_redis_available_in(context) THEN CacheMiss ELSE RedisCache_get(key)

ReportFormats == {"html", "pdf", "csv"}

SettingsKey(user_id) == Key("settings", "user", user_id)

\* routes/user_activity.py: set_report_format; data is the request body:
\* "null", "object" (no format in it) or a format.
set_report_format(tok, data) ==
    LET gd == jwt_required(tok)
        user_id == get_jwt_identity(tok)
        settings == [report_format |-> data]
    IN
    /\ IF ~gd.pass
       THEN /\ resp' = [op |-> "set_report_format", status |-> gd.status]
            /\ UNCHANGED cache
       ELSE IF data \in {"null", "object"} \/ data \notin {"html", "pdf"}
       THEN /\ resp' = [op |-> "set_report_format", status |-> 400]
            /\ UNCHANGED cache
       ELSE /\ cache' = IF is_redis_available_in("request")
                        THEN RedisCache_set(cache, SettingsKey(user_id), settings)
                        ELSE cache
            /\ resp' = [op |-> "set_report_format", status |-> 200]
    /\ UNCHANGED <<dbVars, tokens, session, now, inflight, redis_client>>

\* tasks.py: generate_user_quiz_report, run by the worker.
generate_user_quiz_report(user_id, report_format) ==
    LET stored == RedisCache_get_in("task", SettingsKey(user_id))
        chosen == IF is_redis_available_in("task") /\ stored # CacheMiss
                  THEN stored.report_format ELSE report_format
        result == IF user_id \notin Ids(users) THEN "User not found"
                  ELSE IF ScoresOf(user_id) = {} THEN "No quiz history found"
                  ELSE IF chosen = "csv" THEN "csv" ELSE "html"
    IN
    /\ resp' = [op |-> "generate_user_quiz_report", user_id |-> user_id,
                report_format |-> report_format, result |-> result,
                scored |-> Cardinality(ScoresOf(user_id))]
    /\ UNCHANGED <<dbVars, tokens, session, now, inflight, redis_client, cache>>

\* The settings records the cache service holds when the application
\* starts: a record lives for thirty days in a service that outlives the
\* application, and its format is whatever was put there.
SettingsStores ==
    UNION {[{SettingsKey(u) : u \in U} -> [report_format : ReportFormats]] :
           U \in SUBSET (1..MaxUserId)}

InitReport ==
    /\ admins = {1}
    /\ users = {[id |-> i, username |-> i] : i \in 1..MaxUserId}
    /\ subjects = {[id |-> 1, name |-> 1]}
    /\ chapters = {[id |-> 1, name |-> 1, subject_id |-> 1]}
    /\ quizzes = {[id |-> 1, chapter_id |-> 1]}
    /\ questions = {[id |-> 1, quiz_id |-> 1, correct_option |-> 1]}
    /\ scores \in {{}, {[id |-> 1, user_id |-> 1, quiz_id |-> 1,
                          total_scored |-> <<100, 1>>,
                          time_stamp_of_attempt |-> 0]}}
    /\ now = 0
    /\ inflight = {}
    /\ tokens = {create_access_token(u, FALSE, DefaultLifetime) : u \in 1..MaxUserId}
    /\ session = [user_id |-> None, admin |-> FALSE]
    /\ redis_client \in {"none", "up"}
    /\ cache \in IF redis_client = "none" THEN {EmptyCache} ELSE SettingsStores
    /\ resp = [op |-> "none", status |-> 0]

NextReport ==
    \/ \E tok \in Headers, data \in {"null", "object"} \cup ReportFormats :
           set_report_format(tok, data)
    \/ \E user_id \in 1..(MaxUserId + 1), report_format \in {"html", "csv"} :
           generate_user_quiz_report(user_id, report_format)

SpecReport == InitReport /\ [][NextReport]_vars

\* ------------------------------------------------------------ serializer
\* Python values by type: v is the integer, the text's number, the day or
\* the instant; None is the one value of NoneType.
Value(type, v) == [type |-> type, v |-> v]

NoneValue == Value("NoneType", 0)

\* datetime.isoformat(): the instant's text, a str.
isoformat(value) == Value("str", value.v)

\* isinstance(value, datetime) and value.isoformat(), or the value itself.
HandleDatetime(value) ==
    IF value.type = "datetime" THEN isoformat(value) ELSE value

Classes == {"User", "Subject", "Score"}

\* class_mapper(cls).columns, the ones the model carries, with their types.
ColumnTypes(cls) ==
    IF cls = "User"
    THEN [id |-> "int", username |-> "str", password |-> "str", dob |-> "date",
          created_at |-> "datetime"]
    ELSE IF cls = "Subject"
    THEN [id |-> "int", name |-> "str", created_at |-> "datetime"]
    ELSE [id |-> "int", total_scored |-> "float",
          time_stamp_of_attempt |-> "datetime"]

Columns(cls) == DOMAIN ColumnTypes(cls)

Nullable == {"dob", "created_at", "time_stamp_of_attempt"}

\* The instances of a class: a value of the column's type in every column,
\* or None where the column admits it.
Instances(cls) ==
    {x \in [Columns(cls) -> {Value(t, v) : t \in {"int", "str", "date", "datetime", "float"},
                                          v \in 1..MaxValue} \cup {NoneValue}] :
        \A c \in Columns(cls) :
            \/ x[c].type = ColumnTypes(cls)[c]
               /\ (c \in {"password", "dob"} => x[c].v = 1)
            \/ x[c] = NoneValue /\ c \in Nullable}

\* The exclude argument: None, or a list of column names.
NoExclude == [given |-> FALSE, names |-> {}]

Exclude(names) == [given |-> TRUE, names |-> names]

\* User.to_dict's "exclude or ['password']" (an empty list counts as none
\* given); the other classes' "if exclude is None: exclude = []".
Excluded(cls, exclude) ==
    IF cls = "User"
    THEN IF exclude.given /\ exclude.names # {} THEN exclude.names ELSE {"password"}
    ELSE exclude.names

\* SerializerMixin.to_dict without relationships to include.
SerializerMixin_to_dict(cls, self, exclude) ==
    [c \in Columns(cls) \ Excluded(cls, exclude) |-> HandleDatetime(self[c])]

\* SerializerMixin.from_dict: the constructor is given the map's entries
\* that name a column; the attributes it is not given stay None.
from_dict(cls, data) ==
    [c \in Columns(cls) |-> IF c \in DOMAIN data THEN data[c] ELSE NoneValue]

Excludes == {NoExclude, Exclude({}), Exclude({"id"})}

new_instance(cls, self) ==
    /\ resp' = [op |-> "new", cls |-> cls, self |-> self]
    /\ UNCHANGED <<dbVars, tokens, session, now, inflight, redis_client, cache>>

round_trip(exclude) ==
    /\ resp.op = "new"
    /\ LET data == SerializerMixin_to_dict(resp.cls, resp.self, exclude)
       IN resp' = [op |-> "from_dict", cls |-> resp.cls, self |-> resp.self,
                   excluded |-> Excluded(resp.cls, exclude), data |-> data,
                   rebuilt |-> from_dict(resp.cls, data)]
    /\ UNCHANGED <<dbVars, tokens, session, now, inflight, redis_client, cache>>

InitSerializer ==
    /\ admins = {1}
    /\ users = {}
    /\ subjects = {}
    /\ chapters = {}
    /\ quizzes = {}
    /\ questions = {}
    /\ scores = {}
    /\ now = 0
    /\ inflight = {}
    /\ tokens = {}
    /\ session = [user_id |-> None, admin |-> FALSE]
    /\ redis_client = "none"
    /\ cache = EmptyCache
    /\ resp = [op |-> "none", status |-> 0]

NextSerializer ==
    \/ \E cls \in Classes : \E self \in Instances(cls) : new_instance(cls, self)
    \/ \E exclude \in Excludes : round_trip(exclude)

SpecSerializer == InitSerializer /\ [][NextSerializer]_vars

\* --------------------------------------------------------- monthly reports
\* f"report:monthly:{user_id}:{month}", for the one month of the model.
ReportKey(user_id) == Key("report", "monthly", user_id)

\* routes/export.py: get_monthly_report
get_monthly_report(tok, user_id) ==
    LET gd == jwt_required(tok)
        current_user_id == get_jwt_identity(tok)
        report_html == RedisCache_get(ReportKey(user_id))
        answer(status, report) ==
            resp' = [op |-> "get_monthly_report", user_id |-> user_id,
                     current_user_id |-> current_user_id,
                     is_admin |-> (gd.pass /\ tok.admin),
                     status |-> status, report |-> report]
    IN
    /\ IF ~gd.pass THEN answer(gd.status, CacheMiss)
       ELSE IF user_id \notin Ids(users) THEN answer(404, CacheMiss)
       ELSE IF ~is_redis_available THEN answer(503, CacheMiss)
       ELSE IF report_html = CacheMiss THEN answer(404, CacheMiss)
       ELSE answer(200, report_html)
    /\ UNCHANGED <<dbVars, tokens, session, now, inflight, redis_client, cache>>

\* The monthly reports the cache service holds, each under its user's key.
ReportStores ==
    {[k \in {ReportKey(u) : u \in U} |-> [report_of |-> k.id]] :
        U \in SUBSET (1..MaxUserId)}

InitMonthly ==
    /\ admins = {1}
    /\ users = {[id |-> i, username |-> i] : i \in 1..MaxUserId}
    /\ subjects = {}
    /\ chapters = {}
    /\ quizzes = {}
    /\ questions = {}
    /\ scores = {}
    /\ now = 0
    /\ inflight = {}
    /\ tokens = {create_access_token(u, FALSE, DefaultLifetime) : u \in 1..MaxUserId}
                    \cup {create_access_token(1, TRUE, DefaultLifetime)}
    /\ session = [user_id |-> None, admin |-> FALSE]
    /\ redis_client \in {"none", "up"}
    /\ cache \in IF redis_client = "none" THEN {EmptyCache} ELSE ReportStores
    /\ resp = [op |-> "none", status |-> 0]

NextMonthly ==
    \/ Tick
    \/ \E tok \in Headers, user_id \in 1..(MaxUserId + 1) :
           get_monthly_report(tok, user_id)

SpecMonthly == InitMonthly /\ [][NextMonthly]_vars

\* ------------------------------------------------ the session-guarded routes
SessionResp(op, status) == [op |-> op, status |-> status, user_id |-> session.user_id]

\* routes/auth.py: check_auth
check_auth ==
    /\ resp' = [op |-> "check_auth", status |-> 200,
                logged_in |-> (session.user_id # None \/ session.admin),
                is_admin |-> IF session.user_id # None \/ session.admin
                             THEN session.admin ELSE FALSE]
    /\ UNCHANGED <<dbVars, tokens, session, now, inflight, redis_client, cache>>

\* routes/auth.py: user_dashboard
user_dashboard ==
    /\ resp' = IF session.user_id = None THEN SessionResp("user_dashboard", 403)
               ELSE IF session.user_id \notin Ids(users)
               THEN SessionResp("user_dashboard", 500)
               ELSE SessionResp("user_dashboard", 200)
    /\ UNCHANGED <<dbVars, tokens, session, now, inflight, redis_client, cache>>

\* routes/auth.py: attempt_quiz
attempt_quiz(quiz_id) ==
    /\ resp' = IF session.user_id = None THEN SessionResp("attempt_quiz", 403)
               ELSE SessionResp("attempt_quiz", 200)
    /\ UNCHANGED <<dbVars, tokens, session, now, inflight, redis_client, cache>>

\* routes/auth.py: view_answers
view_answers(quiz_id) ==
    /\ resp' = IF session.user_id = None THEN SessionResp("view_answers", 403)
               ELSE IF UserScores(session.user_id, quiz_id) = {}
               THEN SessionResp("view_answers", 400)
               ELSE IF Quiz_query_get(quiz_id) = {}
               THEN SessionResp("view_answers", 404)
               ELSE SessionResp("view_answers", 200)
    /\ UNCHANGED <<dbVars, tokens, session, now, inflight, redis_client, cache>>

\* routes/auth.py: set_report_format; data is "null" for a body that is no
\* object, or the format given.
legacy_set_report_format(data) ==
    LET user_id == session.user_id
        op == "legacy_set_report_format"
    IN
    /\ IF user_id = None
       THEN resp' = SessionResp(op, 403) /\ UNCHANGED users
       ELSE IF data = "null" \/ user_id \notin Ids(users)
       THEN resp' = SessionResp(op, 500) /\ UNCHANGED users
       ELSE IF data \notin {"html", "pdf"}
       THEN resp' = SessionResp(op, 400) /\ UNCHANGED users
       ELSE /\ users' = {IF u.id = user_id THEN [u EXCEPT !.report_format = data]
                         ELSE u : u \in users}
            /\ resp' = SessionResp(op, 200)
    /\ UNCHANGED <<admins, subjects, chapters, quizzes, questions, scores,
                   tokens, session, now, inflight, redis_client, cache>>

InitSession ==
    /\ admins = {1}
    /\ users = {[id |-> 1, username |-> 1, report_format |-> "html"]}
    /\ subjects = {[id |-> 1, name |-> 1]}
    /\ chapters = {[id |-> 1, name |-> 1, subject_id |-> 1]}
    /\ quizzes = {[id |-> 1, chapter_id |-> 1]}
    /\ questions = {[id |-> 1, quiz_id |-> 1, correct_option |-> 1]}
    /\ scores = {}
    /\ now = 0
    /\ inflight = {}
    /\ tokens = {}
    /\ session = [user_id |-> None, admin |-> FALSE]
    /\ redis_client = "up"
    /\ cache = EmptyCache
    /\ resp = [op |-> "none", status |-> 0]

NextSession ==
    \/ \E user_id \in {None, 1}, admin_id \in {None, 1}, has_fields \in BOOLEAN :
           legacy_login(user_id, admin_id, has_fields)
    \/ logout
    \/ check_auth
    \/ user_dashboard
    \/ \E quiz_id \in QuizIds : attempt_quiz(quiz_id)
    \/ \E quiz_id \in QuizIds, data \in Bodies({}) : submit_quiz(quiz_id, data)
    \/ \E quiz_id \in QuizIds : view_answers(quiz_id)
    \/ \E data \in {"null"} \cup ReportFormats : legacy_set_report_format(data)

SpecSession == InitSession /\ [][NextSession]_vars

\* ------------------------------------------------------- the v2 dashboard
\* The key cached_response builds for the dashboard: the prefix and the
\* handler's name; the handler has no arguments and the request no
\* parameters, so nothing of the caller is in it.
get_user_quiz_dashboard_key == Key("dashboard", "get_user_quiz_dashboard", 0)

\* What get_user_quiz_dashboard computes for the token's subject.
get_user_quiz_dashboard_fresh(user_id) ==
    IF user_id \notin Ids(users)
    THEN [status |-> 404, user |-> None, total_quizzes |-> 0, average_score |-> <<0, 1>>]
    ELSE IF ScoresOf(user_id) = {}
    THEN [status |-> 200, user |-> user_id, total_quizzes |-> 0,
          average_score |-> <<0, 1>>]
    ELSE [status |-> 200, user |-> user_id,
          total_quizzes |-> Cardinality(ScoresOf(user_id)),
          average_score |-> Round(AvgScored(ScoresOf(user_id)), 2)]

\* get_user_quiz_dashboard behind jwt_required and cached_response.
get_user_quiz_dashboard(tok) ==
    LET gd == jwt_required(tok)
        user_id == get_jwt_identity(tok)
        fresh == get_user_quiz_dashboard_fresh(user_id)
        answered == cached_response(get_user_quiz_dashboard_key, fresh)
    IN
    /\ IF ~gd.pass
       THEN /\ resp' = [op |-> "get_user_quiz_dashboard", user_id |-> user_id,
                        status |-> gd.status, body |-> CacheMiss, fresh |-> fresh]
            /\ UNCHANGED cache
       ELSE /\ cache' = answered.store
            /\ resp' = [op |-> "get_user_quiz_dashboard", user_id |-> user_id,
                        status |-> answered.result.status,
                        body |-> answered.result, fresh |-> fresh]
    /\ UNCHANGED <<dbVars, tokens, session, now, inflight, redis_client>>

\* Two users with tokens, one quiz with one question, the cache working.
InitDashboard ==
    /\ admins = {1}
    /\ users = {[id |-> i, username |-> i] : i \in 1..MaxUserId}
    /\ subjects = {[id |-> 1, name |-> 1]}
    /\ chapters = {[id |-> 1, name |-> 1, subject_id |-> 1]}
    /\ quizzes = {[id |-> 1, chapter_id |-> 1]}
    /\ questions = {[id |-> 1, quiz_id |-> 1, correct_option |-> 1]}
    /\ scores = {}
    /\ now = 0
    /\ inflight = {}
    /\ tokens = {create_access_token(u, FALSE, DefaultLifetime) : u \in 1..MaxUserId}
    /\ session = [user_id |-> None, admin |-> FALSE]
    /\ redis_client = "up"
    /\ cache = EmptyCache
    /\ resp = [op |-> "none", status |-> 0]

NextDashboard ==
    \/ \E tok \in Headers : get_user_quiz_dashboard(tok)
    \/ \E tok \in Headers : get_subjects(tok)
    \/ \E tok \in tokens, data \in Bodies({1}) : submit_quiz_attempt(tok, 1, data)

SpecDashboard == InitDashboard /\ [][NextDashboard]_vars

\* ------------------------------ routes/admin.py: the chapters of a subject
\* update_chapter; name and subject_id are None when the body has no such
\* key.  first() returns one of the rows that match, and a name checked and
\* assigned before a 404 for the subject is never committed.
update_chapter(tok, chapter_id, name, subject_id) ==
    LET found == chapter_id \in Ids(chapters)
        chapter == CHOOSE c \in chapters : c.id = chapter_id
        matches == {c \in chapters : c.name = name /\ c.subject_id = chapter.subject_id}
        firsts == IF name = None \/ matches = {} THEN {None} ELSE Ids(matches)
    IN
    \E existing_chapter \in IF found THEN firsts ELSE {None} :
        LET answer == IF ~found THEN Answer(404, "Chapter not found")
                      ELSE IF existing_chapter # None /\ existing_chapter # chapter_id
                      THEN Answer(409, "Chapter name already exists in this subject")
                      ELSE IF subject_id # None /\ subject_id \notin Ids(subjects)
                      THEN Answer(404, "Subject not found")
                      ELSE Answer(200, "Chapter updated successfully")
            done == Guarded(tok, answer).status = 200
            updated == [chapter EXCEPT
                            !.name = IF name # None THEN name ELSE @,
                            !.subject_id = IF subject_id # None THEN subject_id ELSE @]
        IN
        /\ chapters' = IF done
                       THEN {IF c.id = chapter_id THEN updated ELSE c : c \in chapters}
                       ELSE chapters
        /\ UNCHANGED <<admins, users, subjects, quizzes, questions, scores>>
        /\ resp' = AdminResp("update_chapter", tok, Guarded(tok, answer), chapter_id,
                             found, 0, FALSE)
        /\ UNCHANGED <<tokens, session, now, inflight, redis_client, cache>>

\* A cell of the subject_id column that int() does not take.
NotANumber == -1

\* A data row of a chapters file: its name and subject_id cells, None for a
\* cell that is missing or empty.
ChapterCsvFiles ==
    UNION {[1..n -> [name : Matches({1}),
                     subject_id : {None, NotANumber} \cup RowIds]] :
           n \in 0..MaxRows}

ChapterUploads ==
    {[kind |-> k, rows |-> <<>>] : k \in {"none", "unnamed", "not_csv"}}
        \cup {[kind |-> "csv", rows |-> r] : r \in ChapterCsvFiles}

\* One turn of the loop of import_chapters_csv; an exception of int() is
\* the row's error.  The queries flush the session first, so they see the
\* rows added earlier in the file.
import_chapter_row(acc, row_num, row) ==
    IF row.name = None \/ row.subject_id = None
    THEN [acc EXCEPT !.errors = Append(@, RowError(row_num,
                                  "Chapter name and subject_id are required", None))]
    ELSE IF row.subject_id = NotANumber
    THEN [acc EXCEPT !.errors = Append(@, RowError(row_num, "invalid literal for int()",
                                                   row.name))]
    ELSE IF row.subject_id \notin Ids(subjects)
    THEN [acc EXCEPT !.errors = Append(@, RowError(row_num, "not found", row.name))]
    ELSE IF \E c \in chapters \cup acc.pending :
                c.name = row.name /\ c.subject_id = row.subject_id
    THEN [acc EXCEPT !.errors = Append(@, RowError(row_num, "already exists", row.name))]
    ELSE [acc EXCEPT !.pending = @ \cup {[id |-> NextId(chapters \cup acc.pending),
                                          name |-> row.name,
                                          subject_id |-> row.subject_id]},
                     !.imported_count = @ + 1]

RECURSIVE import_chapter_rows(_, _, _)
import_chapter_rows(rows, i, acc) ==
    IF i > Len(rows) THEN acc
    ELSE import_chapter_rows(rows, i + 1, import_chapter_row(acc, RowNumber(i), rows[i]))

import_chapters_csv(tok, upload) ==
    LET op == "import_chapters_csv"
        gd == admin_required(tok)
        done == import_chapter_rows(upload.rows, 1,
                                    [pending |-> {}, imported_count |-> 0, errors |-> <<>>])
        refused(answer) ==
            /\ UNCHANGED chapters
            /\ resp' = [op |-> op, tok |-> tok, ran |-> gd.pass, status |-> answer.status,
                        message |-> answer.message, imported_count |-> 0,
                        errors |-> <<>>]
    IN
    /\ IF ~gd.pass THEN refused(gd)
       ELSE IF upload.kind = "none" THEN refused(Answer(400, "No file uploaded"))
       ELSE IF upload.kind = "unnamed" THEN refused(Answer(400, "No file selected"))
       ELSE IF upload.kind = "not_csv" THEN refused(Answer(400, "File must be a CSV"))
       ELSE /\ Cardinality(chapters \cup done.pending) <= MaxRows
            /\ chapters' = chapters \cup done.pending
            /\ resp' = [op |-> op, tok |-> tok, ran |-> TRUE, status |-> 200,
                        message |-> "Successfully imported",
                        imported_count |-> done.imported_count, errors |-> done.errors]
    /\ UNCHANGED <<admins, users, subjects, quizzes, questions, scores,
                   tokens, session, now, inflight, redis_client, cache>>

\* Two subjects the admin made, no chapter yet; one user and the admin
\* hold tokens.
InitChapters ==
    /\ admins = {1}
    /\ users = {[id |-> 2, username |-> 2]}
    /\ subjects = {[id |-> i, name |-> i] : i \in RowIds}
    /\ chapters = {}
    /\ quizzes = {}
    /\ questions = {}
    /\ scores = {}
    /\ now = 0
    /\ inflight = {}
    /\ tokens = {create_access_token(2, FALSE, DefaultLifetime),
                 create_access_token(1, TRUE, DefaultLifetime)}
    /\ session = [user_id |-> None, admin |-> FALSE]
    /\ redis_client = "up"
    /\ cache = EmptyCache
    /\ resp = [op |-> "none", status |-> 0]

NextChapters ==
    \/ \E tok \in tokens, n \in Matches(UserNames), x \in RowIds :
           create_chapter(tok, n, x)
    \/ \E tok \in tokens, c \in RowIds, n \in Matches(UserNames),
          x \in Matches(1..(MaxRows + 1)) : update_chapter(tok, c, n, x)
    \/ \E tok \in tokens, upload \in ChapterUploads : import_chapters_csv(tok, upload)
    \/ \E tok \in tokens, c \in RowIds : delete_chapter(tok, c)

SpecChapters == InitChapters /\ [][NextChapters]_vars

\* ------------------------------- submit_quiz_attempt, two requests at once
\* The handler in two steps, for requests served by different threads or
\* workers: the first runs up to the scoring loop (the token, the body, the
\* quiz, the existing-Score query, the questions), the second builds the
\* Score, commits it and answers.  Nothing in between holds a lock: the
\* queries are plain SELECTs and the Score table has no uniqueness
\* constraint.
Passes(tok, quiz_id, data) ==
    /\ jwt_required(tok).pass
    /\ HasAnswers(data)
    /\ Quiz_query_get(quiz_id) # {}
    /\ ExistingScores(get_jwt_identity(tok), quiz_id) = {}
    /\ QuizQuestions(quiz_id) # {}
    /\ ~ScoringRaises(QuizQuestions(quiz_id), data.answers)

Submissions == {r \in inflight : r.kind = "submit_quiz_attempt"}

submit_quiz_attempt_begin(tok, quiz_id, data) ==
    LET qs == QuizQuestions(quiz_id)
        free == (1..MaxRequests) \ {r.rid : r \in Submissions}
    IN
    /\ Passes(tok, quiz_id, data)
    /\ free # {}
    /\ inflight' = inflight \cup
           {[kind |-> "submit_quiz_attempt", rid |-> Min(free),
             user_id |-> get_jwt_identity(tok), quiz_id |-> quiz_id, data |-> data,
             score_percentage |->
                 Percentage(CorrectAnswers(qs, data.answers), Cardinality(qs))]}
    /\ UNCHANGED <<dbVars, tokens, session, now, redis_client, cache, resp>>

submit_quiz_attempt_commit(r) ==
    LET op == "submit_quiz_attempt"
        new_score == [id |-> NextId(scores), user_id |-> r.user_id,
                      quiz_id |-> r.quiz_id, total_scored |-> r.score_percentage,
                      time_stamp_of_attempt |-> now]
    IN
    /\ r \in Submissions
    /\ Cardinality(scores) < MaxScores
    /\ scores' = add_score(scores, new_score)
    /\ cache' = IF is_redis_available
                THEN invalidate_model_cache(
                         invalidate_model_cache(cache, "quiz", r.quiz_id), "dashboard", 0)
                ELSE cache
    /\ inflight' = inflight \ {r}
    /\ resp' = IF r.data.kind = "array"
               THEN AttemptResp(op, r.user_id, r.quiz_id, r.data, 500,
                                "'list' object has no attribute 'get'",
                                NoPct, NoDate, Inserted(scores, scores'))
               ELSE AttemptResp(op, r.user_id, r.quiz_id, r.data, 200,
                                "Quiz submitted successfully", r.score_percentage,
                                NoDate, Inserted(scores, scores'))
    /\ UNCHANGED <<admins, users, subjects, chapters, quizzes, questions,
                   tokens, session, now, redis_client>>

NextRace ==
    \/ \E tok \in tokens, data \in Bodies({}) : submit_quiz_attempt_begin(tok, 1, data)
    \/ \E r \in inflight : submit_quiz_attempt_commit(r)
    \/ \E tok \in Headers, data \in Bodies({}) : submit_quiz_attempt(tok, 1, data)

SpecRace == InitDashboard /\ [][NextRace]_vars

\* ------------------------------------ an admin's token on the user routes
\* Users 1 and 2 are registered and never log in: every token a client
\* holds comes from admin_login, with the seeded Admin's id as its subject.
InitAdminToken ==
    /\ admins = {1}
    /\ users = {[id |-> i, username |-> i] : i \in 1..MaxUserId}
    /\ subjects = {[id |-> 1, name |-> 1]}
    /\ chapters = {[id |-> 1, name |-> 1, subject_id |-> 1]}
    /\ quizzes = {[id |-> 1, chapter_id |-> 1]}
    /\ questions = {[id |-> 1, quiz_id |-> 1, correct_option |-> 1]}
    /\ scores = {}
    /\ now = 0
    /\ inflight = {}
    /\ tokens = {}
    /\ session = [user_id |-> None, admin |-> FALSE]
    /\ redis_client = "none"
    /\ cache = EmptyCache
    /\ resp = [op |-> "none", status |-> 0]

NextAdminToken ==
    \/ Tick
    \/ \E a \in Matches(admins), has_fields \in BOOLEAN : admin_login(a, has_fields)
    \/ \E tok \in Headers, data \in Bodies({1}) : submit_quiz_attempt(tok, 1, data)
    \/ \E tok \in Headers : get_user_quiz_dashboard(tok)
    \/ \E tok \in Headers : get_user_achievements(tok)

SpecAdminToken == InitAdminToken /\ [][NextAdminToken]_vars

\* ------------------------------------------- what a Score row refers to
\* user.scores, which the delete of the user cascades to.
UserOwnedScores(user_id) == {x \in scores : x.user_id = user_id}

\* routes/admin.py: delete_user
delete_user(tok, user_id) ==
    LET answer == IF user_id \notin Ids(users) THEN Answer(404, "User not found")
                  ELSE Answer(200, "User deleted successfully")
        done == Guarded(tok, answer).status = 200
    IN
    /\ users' = IF done THEN {u \in users : u.id # user_id} ELSE users
    /\ scores' = IF done THEN scores \ UserOwnedScores(user_id) ELSE scores
    /\ UNCHANGED <<admins, subjects, chapters, quizzes, questions>>
    /\ resp' = AdminResp("delete_user", tok, Guarded(tok, answer), user_id,
                         user_id \in Ids(users), Cardinality(UserOwnedScores(user_id)),
                         user_id \in Ids(users) \ Ids(users'))
    /\ UNCHANGED <<tokens, session, now, inflight, redis_client, cache>>

\* User 2 holds a token, the admin another; one quiz with one question.
InitRefs ==
    /\ admins = {1}
    /\ users = {[id |-> 2, username |-> 2]}
    /\ subjects = {[id |-> 1, name |-> 1]}
    /\ chapters = {[id |-> 1, name |-> 1, subject_id |-> 1]}
    /\ quizzes = {[id |-> 1, chapter_id |-> 1]}
    /\ questions = {[id |-> 1, quiz_id |-> 1, correct_option |-> 1]}
    /\ scores = {}
    /\ now = 0
    /\ inflight = {}
    /\ tokens = {create_access_token(2, FALSE, DefaultLifetime),
                 create_access_token(1, TRUE, DefaultLifetime)}
    /\ session = [user_id |-> None, admin |-> FALSE]
    /\ redis_client = "up"
    /\ cache = EmptyCache
    /\ resp = [op |-> "none", status |-> 0]

NextRefs ==
    \/ \E u \in Matches(Ids(users)), hf \in BOOLEAN : legacy_login(u, None, hf)
    \/ \E q \in QuizIds : submit_quiz(q, [kind |-> "object", answers |-> NoAnswers])
    \/ \E tok \in tokens, q \in QuizIds :
           submit_quiz_attempt(tok, q, [kind |-> "answers", answers |-> NoAnswers])
    \/ \E tok \in tokens, u \in 1..MaxUserId : delete_user(tok, u)
    \/ \E tok \in tokens, q \in QuizIds : delete_quiz(tok, q)
    \/ \E tok \in tokens, c \in Matches(RowIds), ok \in BOOLEAN : create_quiz(tok, c, ok)

SpecRefs == InitRefs /\ [][NextRefs]_vars

\* ------------------------------------------- updates that validate late
\* A key the request body does not have: of a number, and of a text.
Absent == -2

Missing == "absent"

\* A mutant of the teardown: what the request left uncommitted stays in the
\* session and is written with it.
shutdown_session_flushes(committed, dirty) == dirty

\* Flask-SQLAlchemy's teardown, db.session.remove(): a request that
\* returned without commit leaves the table as it was committed.
shutdown_session(committed, dirty) == committed

\* The table with one row replaced.
Replaced(rows, row) == {IF x.id = row.id THEN row ELSE x : x \in rows}

\* The body of a profile update: full_name (a name, or absent), dob
\* ("valid" for a YYYY-MM-DD text, "invalid" for another, or absent),
\* report_format, and the password change ("wrong" current password,
\* "short" new one, "ok", or absent).
ProfileBodies ==
    [object : {TRUE}, full_name : {Absent, 2}, dob : {Missing, "valid", "invalid"},
     report_format : {Missing, "csv", "pdf"}, password : {Missing, "wrong", "short", "ok"}]

\* A body that is no object: data is None and the first 'in' raises.
NullBody ==
    [object |-> FALSE, full_name |-> Absent, dob |-> Missing,
     report_format |-> Missing, password |-> Missing]

\* routes/auth_v2.py: update_profile
update_profile(tok, data) ==
    LET gd == jwt_required(tok)
        user_id == get_jwt_identity(tok)
        user == CHOOSE u \in users : u.id = user_id
        named == IF data.full_name # Absent THEN [user EXCEPT !.full_name = data.full_name]
                 ELSE user
        born == IF data.dob = "valid" THEN [named EXCEPT !.dob = 1] ELSE named
        formatted == IF data.report_format # Missing
                     THEN [born EXCEPT !.report_format = data.report_format] ELSE born
        changed == IF data.password = "ok" THEN [formatted EXCEPT !.password = 2]
                   ELSE formatted
        answer(status, dirty) ==
            /\ users' = IF status = 200 THEN Replaced(users, dirty)
                        ELSE shutdown_session(users, Replaced(users, dirty))
            /\ resp' = [op |-> "update_profile", status |-> status,
                        before |-> user, dirty |-> dirty]
    IN
    /\ IF ~gd.pass \/ user_id \notin Ids(users)
       THEN /\ resp' = [op |-> "update_profile",
                        status |-> IF gd.pass THEN 404 ELSE gd.status]
            /\ UNCHANGED users
       ELSE IF ~data.object
       THEN /\ resp' = [op |-> "update_profile", status |-> 500]
            /\ UNCHANGED users
       ELSE IF data.dob = "invalid" THEN answer(400, named)
       ELSE IF data.report_format \notin {Missing, "html", "json", "csv"}
       THEN answer(400, born)
       ELSE IF data.password = "wrong" THEN answer(401, formatted)
       ELSE IF data.password = "short" THEN answer(400, formatted)
       ELSE answer(200, [changed EXCEPT !.updated_at = now])
    /\ UNCHANGED <<admins, subjects, chapters, quizzes, questions, scores,
                   tokens, session, now, inflight, redis_client, cache>>

\* The body of a question update: the statement (the four options are
\* assigned the same way), and correct_option: a number in 1..4, 0 for a
\* number outside, NotANumber for a text int() refuses.
QuestionBodies ==
    [question_statement : {Absent, 2}, correct_option : {Absent, 0, 2, NotANumber}]

\* routes/admin.py: update_question
update_question(tok, question_id, data) ==
    LET found == question_id \in Ids(questions)
        question == CHOOSE q \in questions : q.id = question_id
        stated == IF data.question_statement # Absent
                  THEN [question EXCEPT !.question_statement = data.question_statement]
                  ELSE question
        corrected == IF data.correct_option # Absent
                     THEN [stated EXCEPT !.correct_option = data.correct_option]
                     ELSE stated
        answer == IF ~found THEN Answer(404, "Question not found")
                  ELSE IF data.correct_option = NotANumber
                  THEN Answer(400, "Correct option must be a number")
                  ELSE IF data.correct_option # Absent /\ data.correct_option \notin 1..4
                  THEN Answer(400, "Correct option must be 1, 2, 3, or 4")
                  ELSE Answer(200, "Question updated successfully")
        ran == admin_required(tok).pass /\ found
        done == Guarded(tok, answer).status = 200
    IN
    /\ questions' = IF done THEN Replaced(questions, corrected)
                    ELSE IF ran THEN shutdown_session(questions, Replaced(questions, stated))
                    ELSE questions
    /\ resp' = [op |-> "update_question", status |-> Guarded(tok, answer).status,
                before |-> IF found THEN question ELSE [id |-> None],
                dirty |-> IF ran THEN stated ELSE [id |-> None]]
    /\ UNCHANGED <<admins, users, subjects, chapters, quizzes, scores,
                   tokens, session, now, inflight, redis_client, cache>>

\* One user and the admin hold tokens; the rows carry the columns the two
\* updates write.
InitUpdate ==
    /\ admins = {1}
    /\ users = {[id |-> 2, username |-> 2, full_name |-> 1, dob |-> 0,
                 report_format |-> "html", password |-> 1, updated_at |-> 0]}
    /\ subjects = {[id |-> 1, name |-> 1]}
    /\ chapters = {[id |-> 1, name |-> 1, subject_id |-> 1]}
    /\ quizzes = {[id |-> 1, chapter_id |-> 1]}
    /\ questions = {[id |-> 1, quiz_id |-> 1, correct_option |-> 1,
                     question_statement |-> 1]}
    /\ scores = {}
    /\ now = 0
    /\ inflight = {}
    /\ tokens = {create_access_token(2, FALSE, DefaultLifetime),
                 create_access_token(1, TRUE, DefaultLifetime)}
    /\ session = [user_id |-> None, admin |-> FALSE]
    /\ redis_client = "up"
    /\ cache = EmptyCache
    /\ resp = [op |-> "none", status |-> 0]

NextUpdate ==
    \/ \E tok \in tokens, data \in ProfileBodies \cup {NullBody} : update_profile(tok, data)
    \/ \E tok \in tokens, q \in RowIds, data \in QuestionBodies :
           update_question(tok, q, data)
    \/ \E tok \in tokens, data \in Bodies({}) : submit_quiz_attempt(tok, 1, data)

SpecUpdate == InitUpdate /\ [][NextUpdate]_vars

\* ------------------------------------------------- simulated export task
\* time.sleep(5) and expire_seconds=3600, in ticks of a scaled clock: the
\* delay ends well before the record's life does.
SleepTicks == 1
TaskTtlTicks == 3
MaxTasks == 2

TaskIds == 1..MaxTasks

TaskKey(task_id) == Key("task", "export_quiz_data", task_id)

\* uuid.uuid4(): an id no earlier task has.
FreeTaskIds == {t \in TaskIds : t > resp.last_task}

\* setex: the record and the time it leaves the store.
Setex(value, expire) == [value EXCEPT !.expires = now + expire]

\* What the store holds under a key now: a record past its life is gone.
Live(key) ==
    IF key \in DOMAIN cache /\ now < cache[key].expires THEN cache[key] ELSE CacheMiss

\* The timer threads that have not ended.
Timers == {r \in inflight : r.kind = "complete_task"}

\* routes/user_activity.py: export_user_quiz_csv
export_user_quiz_csv(tok) ==
    LET gd == jwt_required(tok)
        task_id == Min(FreeTaskIds)
        task_data == [status |-> "PENDING", created_at |-> now,
                      completed_at |-> NoDate, expires |-> 0]
        stored == is_redis_available /\ RedisCache_set_ok
    IN
    /\ FreeTaskIds # {}
    /\ now + SleepTicks <= MaxTime
    /\ IF ~gd.pass
       THEN /\ resp' = [op |-> "export_user_quiz_csv", status |-> gd.status,
                        task_id |-> None, last_task |-> resp.last_task, stored |-> FALSE]
            /\ UNCHANGED <<cache, inflight>>
       ELSE /\ cache' = IF is_redis_available
                        THEN RedisCache_set(cache, TaskKey(task_id),
                                            Setex(task_data, TaskTtlTicks))
                        ELSE cache
            /\ inflight' = IF is_redis_available
                           THEN inflight \cup {[kind |-> "complete_task",
                                                task_id |-> task_id,
                                                task_data |-> task_data,
                                                due |-> now + SleepTicks]}
                           ELSE inflight
            /\ resp' = [op |-> "export_user_quiz_csv", status |-> 200,
                        task_id |-> task_id, last_task |-> task_id, stored |-> stored]
    /\ UNCHANGED <<dbVars, tokens, session, now, redis_client>>

\* The thread's complete_task once its sleep is over: RedisCache.set looks
\* for redis_client on the g of a thread that has no application context,
\* stores nothing, and the thread ends.
complete_task(r) ==
    LET done == [r.task_data EXCEPT !.status = "SUCCESS", !.completed_at = now]
    IN
    /\ r \in Timers
    /\ now >= r.due
    /\ cache' = IF is_redis_available_in("thread")
                THEN RedisCache_set(cache, TaskKey(r.task_id), Setex(done, TaskTtlTicks))
                ELSE cache
    /\ inflight' = inflight \ {r}
    /\ UNCHANGED <<dbVars, tokens, session, now, redis_client, resp>>

\* What get_task_status answers for a task id now.
TaskStatus(task_id) ==
    IF ~is_redis_available THEN [code |-> 500, status |-> "none", completed_at |-> NoDate]
    ELSE IF RedisCache_get(TaskKey(task_id)) = CacheMiss \/ Live(TaskKey(task_id)) = CacheMiss
    THEN [code |-> 404, status |-> "none", completed_at |-> NoDate]
    ELSE [code |-> 200, status |-> Live(TaskKey(task_id)).status,
          completed_at |-> Live(TaskKey(task_id)).completed_at]

\* routes/user_activity.py: get_task_status
get_task_status(tok, task_id) ==
    LET gd == jwt_required(tok)
    IN
    /\ resp' = [op |-> "get_task_status",
                status |-> IF gd.pass THEN TaskStatus(task_id).code ELSE gd.status,
                task_id |-> task_id, last_task |-> resp.last_task, stored |-> FALSE,
                task_status |-> IF gd.pass THEN TaskStatus(task_id).status ELSE "none"]
    /\ UNCHANGED <<dbVars, tokens, session, now, inflight, redis_client, cache>>

InitTasks ==
    /\ admins = {1}
    /\ users = {[id |-> 1, username |-> 1]}
    /\ subjects = {}
    /\ chapters = {}
    /\ quizzes = {}
    /\ questions = {}
    /\ scores = {}
    /\ now = 0
    /\ inflight = {}
    /\ tokens = {create_access_token(1, FALSE, (MaxTime + 1) * TicksPerSecond)}
    /\ session = [user_id |-> None, admin |-> FALSE]
    /\ redis_client \in {"none", "up"}
    /\ cache = EmptyCache
    /\ resp = [op |-> "none", status |-> 0, task_id |-> None, last_task |-> None,
               stored |-> FALSE]

NextTasks ==
    \/ Tick
    \/ \E tok \in tokens \cup {NoToken} : export_user_quiz_csv(tok)
    \/ \E r \in inflight : complete_task(r)
    \/ \E tok \in tokens \cup {NoToken}, task_id \in TaskIds : get_task_status(tok, task_id)

SpecTasks == InitTasks /\ [][NextTasks]_vars

\* The clock advances and a started thread runs: the thread is a daemon
\* of a server process that keeps running.
SpecTasksLive ==
    SpecTasks /\ WF_vars(Tick) /\ WF_vars(\E r \in inflight : complete_task(r))

\* ------------------------------------------------ routes and the task queue
\* The names tasks.py binds at its top level (imports it makes for its own
\* use aside): what 'from tasks import <name>' finds.
tasks_names ==
    {"make_celery", "register_celery_tasks", "schedule_periodic_tasks",
     "_generate_csv_report", "_generate_html_report", "_send_google_chat_reminder",
     "_send_email_reminder", "_send_monthly_report_email",
     "_simulate_email_reminder", "_simulate_monthly_report_email"}

\* 'from tasks import name': FALSE when it raises ImportError.
ImportFromTasks(name) == name \in tasks_names

\* The names register_celery_tasks gives to @celery.task.
RegisteredTasks ==
    {"tasks.update_quiz_statistics", "tasks.generate_user_quiz_report",
     "tasks.export_user_quiz_data", "tasks.send_monthly_report",
     "tasks.send_daily_reminders", "tasks.export_admin_quiz_data"}

\* The messages the broker holds.
Queue == {r \in inflight : r.kind = "task"}

\* celery.send_task(name): the message it puts on the queue.
send_task(name) == [kind |-> "task", name |-> name, task_id |-> Cardinality(Queue) + 1]

\* A route that only enqueues: the guard's answer, or the answer of
\* 'from tasks import celery; celery.send_task(name)' and of the except
\* around it.
EnqueueRoute(op, gd, name, started) ==
    LET sent == gd.pass /\ ImportFromTasks("celery")
    IN
    /\ sent => Cardinality(Queue) < MaxRequests
    /\ inflight' = IF sent THEN inflight \cup {send_task(name)} ELSE inflight
    /\ resp' = [op |-> op, ran |-> gd.pass, task_name |-> name, task_id |-> None,
                status |-> IF ~gd.pass THEN gd.status ELSE IF sent THEN started ELSE 500,
                body |-> IF ~gd.pass THEN "rejected" ELSE IF sent THEN "success" ELSE "error"]
    /\ UNCHANGED <<dbVars, tokens, session, now, redis_client, cache>>

\* routes/export.py: export_user_quiz_data
start_user_export(tok) ==
    EnqueueRoute("export_user_quiz_data", jwt_required(tok),
                 "tasks.export_user_quiz_data", 202)

\* routes/export.py: export_admin_quiz_data
start_admin_export(tok) ==
    EnqueueRoute("export_admin_quiz_data", jwt_utils_admin_required(tok),
                 "tasks.export_admin_quiz_data", 202)

\* routes/export.py: generate_monthly_reports
generate_monthly_reports(tok) ==
    EnqueueRoute("generate_monthly_reports", jwt_utils_admin_required(tok),
                 "tasks.generate_monthly_report", 202)

\* routes/admin.py: trigger_daily_reminders
trigger_daily_reminders(tok) ==
    EnqueueRoute("trigger_daily_reminders", admin_required(tok),
                 "tasks.send_daily_reminders", 200)

\* routes/admin.py: trigger_monthly_reports
trigger_monthly_reports(tok) ==
    EnqueueRoute("trigger_monthly_reports", admin_required(tok),
                 "tasks.send_monthly_report", 200)

\* celery.AsyncResult(task_id).state: PENDING for a message no worker has
\* taken, and for an id the backend does not know.
AsyncResultState(task_id) == "PENDING"

\* routes/export.py: get_export_status. The lookup is 'from tasks import
\* celery' and AsyncResult; when it raises, the except imports
\* TaskProgressManager from tasks, and what that raises reaches the outer
\* except.
get_export_status(tok, task_id) ==
    LET gd == jwt_required(tok)
        lookup == IF ImportFromTasks("celery") THEN AsyncResultState(task_id)
                  ELSE "ImportError"
        fallback == IF ImportFromTasks("TaskProgressManager") THEN "unknown"
                    ELSE "ImportError"
    IN
    /\ resp' = [op |-> "get_export_status", ran |-> gd.pass, task_name |-> "",
                task_id |-> task_id,
                status |-> IF ~gd.pass THEN gd.status
                           ELSE IF lookup = "ImportError" /\ fallback = "ImportError"
                           THEN 500 ELSE 200,
                body |-> IF ~gd.pass THEN "rejected"
                         ELSE IF lookup = "PENDING" THEN "pending"
                         ELSE IF fallback = "ImportError" THEN "error"
                         ELSE fallback,
                lookup |-> lookup]
    /\ UNCHANGED <<dbVars, tokens, session, now, inflight, redis_client, cache>>

InitExport ==
    /\ admins = {1}
    /\ users = {[id |-> 1, username |-> 1]}
    /\ subjects = {}
    /\ chapters = {}
    /\ quizzes = {}
    /\ questions = {}
    /\ scores = {}
    /\ now = 0
    /\ inflight = {}
    /\ tokens = {create_access_token(1, FALSE, DefaultLifetime),
                 create_access_token(1, TRUE, DefaultLifetime)}
    /\ session = [user_id |-> None, admin |-> FALSE]
    /\ redis_client \in {"none", "up"}
    /\ cache = EmptyCache
    /\ resp = [op |-> "none", status |-> 0]

NextExport ==
    \/ Tick
    \/ \E tok \in Headers : start_user_export(tok)
    \/ \E tok \in Headers : start_admin_export(tok)
    \/ \E tok \in Headers : generate_monthly_reports(tok)
    \/ \E tok \in Headers : trigger_daily_reminders(tok)
    \/ \E tok \in Headers : trigger_monthly_reports(tok)
    \/ \E tok \in Headers, task_id \in TaskIds : get_export_status(tok, task_id)

SpecExport == InitExport /\ [][NextExport]_vars

\* ------------------------------------------------------- history progress
MaxProgressScores == 3
MaxStamp == 1

\* a - b, and a / b * 100 for b above 0, of two fractions.
RatSub(a, b) == Rat(a[1] * b[2] - b[1] * a[2], a[2] * b[2])

RatPercentOf(a, b) == Rat(a[1] * b[2] * 100, a[2] * b[1])

\* The rows that can stand first and last in a list ordered by
\* time_stamp_of_attempt: rows with equal stamps come in either order.
FirstRows(rows) ==
    {x \in rows : \A y \in rows : x.time_stamp_of_attempt <= y.time_stamp_of_attempt}

LastRows(rows) ==
    {x \in rows : \A y \in rows : y.time_stamp_of_attempt <= x.time_stamp_of_attempt}

\* A mutant of the improvement: the first score minus the last.
improvement_reversed(first_score, last_score) == RatSub(first_score, last_score)

\* last_score - first_score
improvement_of(first_score, last_score) == RatSub(last_score, first_score)

\* routes/quiz_history.py: get_user_progress; first_score is bound only in
\* the branch for two or more scores, and reading it unbound raises.
get_user_progress(tok) ==
    LET gd == jwt_required(tok)
        user_id == get_jwt_identity(tok)
        rows == ScoresOf(user_id)
        answer(status, attempts, improvement, percentage) ==
            resp' = [op |-> "get_user_progress", status |-> status, user_id |-> user_id,
                     total_attempts |-> attempts, improvement |-> improvement,
                     improvement_percentage |-> percentage]
    IN
    /\ IF ~gd.pass THEN answer(gd.status, 0, NoPct, NoPct)
       ELSE IF Cardinality(rows) < 2 THEN answer(500, 0, NoPct, NoPct)
       ELSE \E first \in FirstRows(rows), last \in LastRows(rows) :
                /\ first # last
                /\ LET first_score == first.total_scored
                       improvement == improvement_of(first_score, last.total_scored)
                   IN answer(200, Cardinality(rows), Round(improvement, 2),
                             IF first_score[1] > 0
                             THEN Round(RatPercentOf(improvement, first_score), 2)
                             ELSE Round(Rat(0, 1), 2))
    /\ UNCHANGED <<dbVars, tokens, session, now, inflight, redis_client, cache>>

\* The percentages of quizzes of one, two and three questions.
ProgressValues == {Rat(0, 1), Rat(100, 3), Rat(50, 1), Rat(100, 1)}

\* Score tables of two users, rows numbered as they were inserted.
ProgressTables ==
    UNION {{{[id |-> i, user_id |-> f[i].user_id, quiz_id |-> 1,
              total_scored |-> f[i].total_scored,
              time_stamp_of_attempt |-> f[i].stamp] : i \in 1..n} :
            f \in [1..n -> [user_id : 1..MaxUserId, total_scored : ProgressValues,
                            stamp : 0..MaxStamp]]} :
           n \in 0..MaxProgressScores}

InitProgress ==
    /\ admins = {1}
    /\ users = {[id |-> i, username |-> i] : i \in 1..MaxUserId}
    /\ subjects = {[id |-> 1, name |-> 1]}
    /\ chapters = {[id |-> 1, name |-> 1, subject_id |-> 1]}
    /\ quizzes = {[id |-> 1, chapter_id |-> 1]}
    /\ questions = {[id |-> 1, quiz_id |-> 1, correct_option |-> 1]}
    /\ scores \in ProgressTables
    /\ now = MaxStamp
    /\ inflight = {}
    /\ tokens = {create_access_token(1, FALSE, DefaultLifetime)}
    /\ session = [user_id |-> None, admin |-> FALSE]
    /\ redis_client = "up"
    /\ cache = EmptyCache
    /\ resp = [op |-> "none", status |-> 0]

NextProgress ==
    \E tok \in Headers : get_user_progress(tok)

SpecProgress == InitProgress /\ [][NextProgress]_vars

\* ------------------------------------------------------------- properties
\* The time a token's holder expects it to end: t + L.
Deadline(tok) == tok.issued_at + tok.lifetime

\* The time its exp claim says: t + L cut to a whole second.
ExpClaim(tok) == NumericDate(tok.issued_at + tok.lifetime) * TicksPerSecond

TokenGuarded == {"verify_token", "export_admin_quiz_data"}

\* C6: an unexpired token without the admin flag passes jwt_required (the
\* handler runs) and is rejected with 403 by the claim-based admin guard; an
\* unexpired token with the admin flag passes both guards.
C6_TokenGuards ==
    (resp.op \in TokenGuarded /\ resp.tok.kind = "jwt" /\ resp.at < ExpClaim(resp.tok)) =>
        /\ resp.op = "verify_token" => resp.ran
        /\ (resp.op = "export_admin_quiz_data" /\ resp.tok.admin) => resp.ran
        /\ (resp.op = "export_admin_quiz_data" /\ ~resp.tok.admin) =>
               (~resp.ran /\ resp.status = 403)

C6_Witness ==
    /\ resp.op = "export_admin_quiz_data"
    /\ resp.tok.kind = "jwt"
    /\ ~resp.tok.admin
    /\ resp.status = 403
    /\ \E t \in tokens : t.admin /\ ~Expired(t, now)

\* C7 as stated: a token issued at t with lifetime L passes the token guard
\* at every time before t + L and is rejected with 401 'Token has expired' at
\* every time after t + L.
C7_AcceptedUntilDeadline ==
    (resp.op \in TokenGuarded /\ resp.tok.kind = "jwt") =>
        /\ resp.at < Deadline(resp.tok) => resp.status # 401
        /\ resp.at > Deadline(resp.tok) =>
               (resp.status = 401 /\ resp.message = "Token has expired")

\* C7 amended: the token passes the token guard at every time before t + L
\* cut to a whole second, is rejected with 401 'Token has expired' from that
\* second on, and once the guard rejects it as expired it always does.
C7_AcceptedUntilExpClaim ==
    /\ [](  (resp.op \in TokenGuarded /\ resp.tok.kind = "jwt") =>
              /\ resp.at < ExpClaim(resp.tok) => resp.status # 401
              /\ resp.at >= ExpClaim(resp.tok) =>
                     (resp.status = 401 /\ resp.message = "Token has expired"))
    /\ [][\A tok \in tokens :
             jwt_required(tok).message = "Token has expired"
                 => (jwt_required(tok).message)' = "Token has expired"]_vars

\* A token rejected as expired before t + L.
C7_Witness ==
    /\ resp.op = "verify_token"
    /\ resp.tok.kind = "jwt"
    /\ resp.message = "Token has expired"
    /\ resp.at < Deadline(resp.tok)

\* ------------------------------------------------ the v2 attempt policy
\* The request was let through by the token guard.
ByUser(r) == r.status # 401

\* C1: under the v2 flow alone, a submission by a user who has a Score for
\* the quiz is answered with an error and stores nothing; when it carries
\* answers the error is the 400 with the score and the attempt date of the
\* user's existing row; and no (user, quiz) pair ever has two Score rows.
C1_SingleAttempt ==
    /\ (resp.op = "submit_quiz_attempt" /\ ByUser(resp) /\ resp.attempts >= 1) =>
           /\ resp.status >= 400
           /\ resp.inserted = 0
           /\ HasAnswers(resp.data) =>
                  /\ resp.status = 400
                  /\ \E s \in UserScores(resp.user_id, resp.quiz_id) :
                         /\ resp.score = s.total_scored
                         /\ resp.date = s.time_stamp_of_attempt
    /\ \A s1, s2 \in scores :
           (s1.user_id = s2.user_id /\ s1.quiz_id = s2.quiz_id) => s1 = s2

\* C1's case: a second attempt was refused with the first one's score and
\* date while another user's row was in the table too.
C1_Witness ==
    /\ resp.op = "submit_quiz_attempt"
    /\ resp.attempts = 1
    /\ resp.data.kind = "answers"
    /\ resp.status = 400
    /\ resp.date # NoDate
    /\ resp.score # NoPct
    /\ Cardinality(scores) = 2

\* The questions of the answered quiz whose submitted option is the correct
\* one, read off the answer map of the request.
Matching(r) ==
    {q \in questions : /\ q.quiz_id = r.quiz_id
                       /\ q.id \in DOMAIN r.data.answers
                       /\ r.data.answers[q.id].v = q.correct_option}

\* A first attempt at a quiz with questions, with an answer map whose
\* values for the quiz's questions are numbers.
Scorable(r) ==
    /\ r.op = "submit_quiz_attempt"
    /\ ByUser(r)
    /\ r.data.kind = "answers"
    /\ r.attempts = 0
    /\ QuizQuestions(r.quiz_id) # {}
    /\ \A q \in QuizQuestions(r.quiz_id) :
           q.id \in DOMAIN r.data.answers => r.data.answers[q.id].t # "bad"

\* C2: for a quiz with N >= 1 questions the v2 submission answers 200 with
\* the percentage (matching questions / N) * 100 and stores it in the one
\* row it inserts; unanswered questions do not match, so the empty map gives
\* 0 and an all-correct map gives 100.
C2_Percentage ==
    Scorable(resp) =>
        LET N == Cardinality(QuizQuestions(resp.quiz_id))
            m == Cardinality(Matching(resp))
        IN /\ resp.status = 200
           /\ resp.score = Rat(100 * m, N)
           /\ resp.inserted = 1
           /\ \E s \in UserScores(resp.user_id, resp.quiz_id) :
                  s.total_scored = resp.score
           /\ resp.data.answers = NoAnswers => resp.score = <<0, 1>>
           /\ m = N => resp.score = <<100, 1>>

\* C2's case: one of two questions answered, and answered correctly.
C2_Witness ==
    /\ Scorable(resp)
    /\ Cardinality(QuizQuestions(resp.quiz_id)) = 2
    /\ Cardinality(DOMAIN resp.data.answers) = 1
    /\ resp.score = <<50, 1>>

\* C3: a legacy submit-quiz call by a logged-in session whose body is a JSON
\* object (with or without an answer map) is answered 200 and inserts one
\* Score row, whatever rows the user has for the quiz.
C3_LegacyAlwaysInserts ==
    (/\ resp.op = "submit_quiz"
     /\ resp.user_id # None
     /\ resp.data.kind \in {"object", "answers"}) =>
        /\ resp.status = 200
        /\ resp.inserted = 1

\* C3's case: the second legacy call for a (user, quiz) pair left two rows.
C3_Witness ==
    /\ resp.op = "submit_quiz"
    /\ resp.attempts = 1
    /\ resp.inserted = 1
    /\ Cardinality(UserScores(resp.user_id, resp.quiz_id)) = 2

\* C8: a 200 answer of the quiz-questions endpoint lists the quiz's
\* questions, and each of them carries correct_option exactly when the caller
\* had a Score row for the quiz.
C8_AnswersAfterAttempt ==
    (resp.op = "get_quiz_questions" /\ resp.status = 200) =>
        /\ {q.id : q \in resp.questions} = {q.id : q \in QuizQuestions(resp.quiz_id)}
        /\ \A q \in resp.questions :
               "correct_option" \in DOMAIN q <=> resp.attempts >= 1

\* C8's case: the caller attempted the quiz and then read its questions
\* with the answers in them.
C8_Witness ==
    /\ resp.op = "get_quiz_questions"
    /\ resp.status = 200
    /\ resp.attempts >= 1
    /\ resp.questions # {}
    /\ \A q \in resp.questions : "correct_option" \in DOMAIN q

\* ------------------------------------------------------ the admin routes
DeleteOps == {"delete_subject", "delete_chapter", "delete_quiz"}

AdminOps ==
    DeleteOps \cup {"create_subject", "create_chapter", "create_quiz", "create_question"}

\* C4: a delete that passed the guard and named an existing Subject, Chapter
\* or Quiz is answered 400 and removes no row of any table when the row owns
\* a Chapter, Quiz or Score, and is answered 200 and removes the row when it
\* owns none.
C4_DeleteBlockedByChildren ==
    (resp.op \in DeleteOps /\ resp.ran /\ resp.found) =>
        /\ resp.children >= 1 => (resp.status = 400 /\ resp.removed = 0 /\ ~resp.gone)
        /\ resp.children = 0 => (resp.status = 200 /\ resp.gone)

\* C4's case: the delete of a quiz somebody attempted was refused.
C4_Witness ==
    /\ resp.op = "delete_quiz"
    /\ resp.ran
    /\ resp.found
    /\ resp.children >= 1
    /\ resp.status = 400
    /\ resp.target \in Ids(quizzes)

\* C5 as stated: a request to an admin route with a token issued to a
\* non-administrator is answered 403 by the local guard and the handler does
\* not run.
C5_NonAdminTokenRejected ==
    (resp.op \in AdminOps /\ resp.tok.kind = "jwt" /\ ~resp.tok.admin) =>
        (resp.status = 403 /\ ~resp.ran)

\* ------------------------------------------------------- the CSV import
\* The positions of the data rows that drew an error numbered n.
ErrorsNumbered(r, n) == {k \in DOMAIN r.errors : r.errors[k].row = n}

\* A data row that can be imported: it has a name no subject had before the
\* request and no earlier row of the file has.
ValidRow(r, i) ==
    LET rows == r.upload.rows
    IN /\ rows[i] # None
       /\ rows[i] \notin r.names_before
       /\ \A j \in 1..(i - 1) : rows[j] # rows[i]

\* C9: an import that read the file answers 200; data row i either has no
\* error and a Subject of its name was stored, or has exactly one error,
\* numbered i + 1; every error belongs to a data row; a valid row is stored
\* whatever failed before it; imported_count plus the number of errors is
\* the number of data rows; and the imported_count rows are in the table
\* after the request.
C9_ImportAccounting ==
    (resp.op = "import_subjects_csv" /\ resp.ran /\ resp.upload.kind = "csv") =>
        LET rows == resp.upload.rows
            failed == {i \in DOMAIN rows : ErrorsNumbered(resp, i + 1) # {}}
        IN /\ resp.status = 200
           /\ \A i \in DOMAIN rows :
                  /\ Cardinality(ErrorsNumbered(resp, i + 1)) <= 1
                  /\ i \notin failed => \E x \in resp.added : x.name = rows[i]
                  /\ ValidRow(resp, i) => i \notin failed
                  /\ i \in failed => ~ValidRow(resp, i)
           /\ \A k \in DOMAIN resp.errors : resp.errors[k].row - 1 \in DOMAIN rows
           /\ resp.imported_count + Len(resp.errors) = Len(rows)
           /\ Cardinality(resp.added) = resp.imported_count
           /\ Cardinality(DOMAIN rows \ failed) = resp.imported_count

\* C9's case: a row without a name between two rows that were imported.
C9_Witness ==
    /\ resp.op = "import_subjects_csv"
    /\ resp.status = 200
    /\ Len(resp.upload.rows) = 3
    /\ resp.imported_count = 2
    /\ Len(resp.errors) = 1
    /\ resp.errors[1].row = 3
    /\ {x.name : x \in resp.added} \subseteq {x.name : x \in subjects}

\* --------------------------------------------------- the cache being absent
\* C10: without a cache handle, get answers None, set False, delete and
\* flush_pattern False (0 here), and none changes the store; a cached endpoint answers
\* with what its handler computes from the tables at that request; and a
\* first attempt with numeric answers is stored and answered 200, its cache
\* invalidation raising nothing.
C10_NoHandleNoCache ==
    redis_client = "none" =>
        /\ resp.op = "RedisCache" =>
               /\ resp.method = "get" => resp.result = CacheMiss
               /\ resp.method = "set" => resp.result = FALSE
               /\ resp.method \in {"delete", "flush_pattern"} => resp.result = 0
               /\ ~resp.changed
        /\ (resp.op = "get_subjects" /\ resp.status # 401) =>
               /\ resp.status = 200
               /\ resp.body = resp.fresh
        /\ Scorable(resp) => (resp.status = 200 /\ resp.inserted = 1)
        /\ cache \in {EmptyCache, [k \in {get_subjects_key} |-> StaleSubjects]}

\* C10's case: without a handle, and with an older answer still on the
\* server, the subjects endpoint answered with the table as it is now.
C10_Witness ==
    /\ redis_client = "none"
    /\ cache # EmptyCache
    /\ resp.op = "get_subjects"
    /\ resp.status = 200
    /\ resp.body.subjects # {}
    /\ resp.body # StaleSubjects
    /\ Cardinality(subjects) = 2

\* ------------------------------------------- the v2 attempt's refusals
\* A submission that carries answers and meets one of the three refusals.
Refusable(r) ==
    /\ r.op = "submit_quiz_attempt"
    /\ ByUser(r)
    /\ HasAnswers(r.data)
    /\ \/ r.quiz_id \notin Ids(quizzes)
       \/ QuizQuestions(r.quiz_id) = {}
       \/ r.attempts >= 1

C13_FirstQuiz ==
    /\ [](resp.op = "get_user_achievements" /\ resp.status = 200 =>
            /\ resp.attempts = 0 =>
                   resp.first_quiz = [progress |-> 0, unlocked |-> FALSE,
                                      unlock_date |-> NoDate]
            /\ resp.attempts >= 1 =>
                   /\ resp.first_quiz.progress = 100
                   /\ resp.first_quiz.unlocked
                   /\ \E x \in scores :
                          /\ x.user_id = resp.user_id
                          /\ x.time_stamp_of_attempt = resp.first_quiz.unlock_date
                          /\ \A y \in scores :
                                 y.user_id = resp.user_id =>
                                     x.time_stamp_of_attempt <= y.time_stamp_of_attempt)
    /\ [][\A u \in Ids(users) :
              first_quiz(u).unlocked => first_quiz(u)'.unlocked]_vars

\* C13's case: the user has attempts at two different times and the entry
\* is dated with the earlier one.
C13_Witness ==
    /\ resp.op = "get_user_achievements"
    /\ resp.status = 200
    /\ resp.attempts >= 2
    /\ \E x \in scores : x.user_id = resp.user_id
                          /\ x.time_stamp_of_attempt > resp.first_quiz.unlock_date
    /\ resp.first_quiz.unlocked

\* -------------------------------------------------------- leaderboards
\* The users a leaderboard's own computation lists.
Listed(r) == {x.user_id : x \in r.fresh.leaderboard}

\* C14: what the global leaderboard computes lists only users with three or
\* more Scores, and what the engagement leaderboard computes lists exactly
\* the users with one or more (there being at most ten); so a user with two
\* Scores is in the second and not in the first.
C14_Eligibility ==
    /\ (resp.op = "get_global_leaderboard" /\ resp.status = 200) =>
           /\ \A u \in Listed(resp) : u \in Ids(users) /\ resp.counts[u] >= 3
           /\ \A u \in Ids(users) : resp.counts[u] = 2 => u \notin Listed(resp)
    /\ (resp.op = "get_leaderboard" /\ resp.status = 200) =>
           /\ \A u \in Listed(resp) : u \in Ids(users) /\ resp.counts[u] >= 1
           /\ \A u \in Ids(users) : resp.counts[u] = 2 => u \in Listed(resp)
    /\ \A x \in IF resp.op \in {"get_global_leaderboard", "get_leaderboard"}
                THEN resp.fresh.leaderboard ELSE {} :
           x.quizzes_taken = resp.counts[x.user_id]

\* C14's case: a user with two Scores is on the engagement leaderboard in a
\* state where the global one lists somebody else.
C14_Witness ==
    /\ resp.op = "get_leaderboard"
    /\ resp.status = 200
    /\ \E u \in Listed(resp) : resp.counts[u] = 2
    /\ \E u \in Ids(users) : Cardinality(ScoresOf(u)) = 2

\* -------------------------------------------------------------- reports
\* C15: with the cache service reachable, the report task run for a user
\* who has a Score and whose cached settings say csv renders CSV though it
\* was asked for html.
C15_CachedPreferenceWins ==
    (/\ resp.op = "generate_user_quiz_report"
     /\ resp.scored >= 1
     /\ resp.report_format = "html"
     /\ redis_client = "up"
     /\ SettingsKey(resp.user_id) \in DOMAIN cache
     /\ cache[SettingsKey(resp.user_id)].report_format = "csv")
    => resp.result = "csv"

\* ----------------------------------------------------------- serializer
\* C16: from_dict of to_dict gives an instance equal to the original on
\* every column that was not excluded, the datetime columns among them, and
\* the excluded columns are not in the map and are unset on the instance.
C16_RoundTrip ==
    resp.op = "from_dict" =>
        \A c \in Columns(resp.cls) :
            IF c \in resp.excluded
            THEN c \notin DOMAIN resp.data /\ resp.rebuilt[c] = NoneValue
            ELSE resp.rebuilt[c] = resp.self[c]

\* ------------------------------------------------------ monthly reports
\* C17: a stored monthly report of user X is returned only to a caller
\* whose token's subject is X or who is an administrator; anybody else gets
\* no report.
C17_OwnReportOnly ==
    (resp.op = "get_monthly_report" /\ resp.report # CacheMiss) =>
        (resp.current_user_id = resp.user_id \/ resp.is_admin)

\* -------------------------------------------------------------- sessions
LoggedOut == session.user_id = None /\ ~session.admin

SessionGuarded ==
    {"user_dashboard", "attempt_quiz", "submit_quiz", "view_answers",
     "legacy_set_report_format"}

\* C18: a logout leaves the session without user and without admin flag,
\* whichever it held; with such a session check_auth reports logged_in and
\* is_admin false and each session-guarded route answers 403 and changes
\* neither the datastore nor the session; and only a successful login ends
\* that.
C18_LogoutEndsSession ==
    [][/\ resp'.op = "logout" => LoggedOut'
       /\ (LoggedOut /\ resp'.op = "check_auth") =>
              (~resp'.logged_in /\ ~resp'.is_admin)
       /\ (LoggedOut /\ resp'.op \in SessionGuarded) =>
              (resp'.status = 403 /\ UNCHANGED <<dbVars, session>>)
       /\ (LoggedOut /\ ~LoggedOut') =>
              (resp'.op = "legacy_login" /\ resp'.status = 200)]_vars

\* C18's case: a submission is refused for want of a session after the
\* user whose Score is stored has logged out.
C18_Witness ==
    /\ LoggedOut
    /\ scores # {}
    /\ resp.op = "submit_quiz"
    /\ resp.status = 403

\* ------------------------------------------------------------ dashboard
\* The response-cache entries of the dashboard and of the catalog.
DashboardOrCatalog(k) ==
    k.name \in {"get_user_quiz_dashboard", "get_subjects"}

\* C19: a v2 submission that succeeds leaves no response-cache entry of the
\* dashboard or of the catalog that was there before it, and a dashboard
\* answered to a user counts every Score the user has.
C19_SubmissionInvalidates ==
    /\ [][(/\ resp'.op = "submit_quiz_attempt"
           /\ resp'.status = 200
           /\ scores' # scores) =>
              \A k \in DOMAIN cache : DashboardOrCatalog(k) => k \notin DOMAIN cache']_vars
    /\ [](( /\ resp.op = "get_user_quiz_dashboard"
            /\ resp.status = 200
            /\ resp.body.user = resp.user_id) =>
              resp.body.total_quizzes = Cardinality(ScoresOf(resp.user_id)))

\* C20: the dashboard answered to a caller is the caller's own.
C20_OwnDashboard ==
    (resp.op = "get_user_quiz_dashboard" /\ resp.status = 200) =>
        resp.body.user = resp.user_id

\* ------------------------------------------------------------- chapters
\* C12: whatever the admin's chapter operations were, no two Chapter rows
\* of one Subject have the same name.
C12_ChapterNamesUnique ==
    \A a \in chapters, b \in chapters :
        (a.subject_id = b.subject_id /\ a.name = b.name) => a.id = b.id

\* ------------------------------------------------------------ the race
\* C21: the second step of a v2 submission inserts its Score whatever the
\* table holds by then, and a second Score for a (user, quiz) pair comes in
\* no other way: two submissions that both passed the check before either
\* committed leave two rows for the pair.
C21_BothInsert ==
    [][/\ \A r \in Submissions \ inflight' :
              Cardinality(UserScores(r.user_id, r.quiz_id)') =
                  Cardinality(UserScores(r.user_id, r.quiz_id)) + 1
       /\ \A u \in Ids(users), q \in Ids(quizzes) :
              (Cardinality(UserScores(u, q)') >= 2 /\ Cardinality(UserScores(u, q)) < 2) =>
                  \E r \in Submissions \ inflight' : r.user_id = u /\ r.quiz_id = q]_vars

\* C21's case: two Score rows of one user for one quiz, the second of them
\* answered with 200.
C21_Witness ==
    /\ \E u \in Ids(users), q \in Ids(quizzes) : Cardinality(UserScores(u, q)) = 2
    /\ resp.op = "submit_quiz_attempt"
    /\ resp.status = 200
    /\ resp.attempts = 1

\* -------------------------------------------------------- admin tokens
\* C22: where the only tokens are an administrator's, the user routes
\* neither store a Score for a User nor answer with a User's dashboard or
\* achievements.
C22_AdminTokenIsNoUser ==
    /\ \A t \in tokens : t.admin
    /\ scores = {}
    /\ resp.op \in {"get_user_quiz_dashboard", "get_user_achievements"} =>
           resp.status # 200

\* ----------------------------------------------------------- references
\* C23: every Score row is a row of a User and of a Quiz that exist.
C23_ScoresReferToRows ==
    \A x \in scores : x.user_id \in Ids(users) /\ x.quiz_id \in Ids(quizzes)

\* --------------------------------------------------------------- updates
\* C24: a request answered with 400 leaves every table as it was, also
\* when fields were assigned before the validation that failed.
C24_Rejected400ChangesNothing ==
    [][resp'.status = 400 => UNCHANGED dbVars]_vars

\* C24's case: a profile update was answered 400 after full_name had been
\* assigned, and the stored row has the old name.
C24_Witness ==
    /\ resp.op = "update_profile"
    /\ resp.status = 400
    /\ resp.dirty.full_name # resp.before.full_name
    /\ \E u \in users : u.id = resp.before.id /\ u.full_name = resp.before.full_name

\* ----------------------------------------------------- simulated export
\* C25: with the cache available, a task id the export endpoint returned is
\* reported PENDING right after creation, later SUCCESS with completed_at
\* while its record lives, and never PENDING again after SUCCESS.
C25_TaskCompletes ==
    /\ [][(resp' # resp /\ resp'.op = "export_user_quiz_csv" /\ resp'.stored)
              => (TaskStatus(resp.task_id).status)' = "PENDING"]_vars
    /\ \A t \in TaskIds :
           (resp.op = "export_user_quiz_csv" /\ resp.stored /\ resp.task_id = t)
               ~> (TaskStatus(t).status = "SUCCESS" /\ TaskStatus(t).completed_at # NoDate)
    /\ [][\A t \in TaskIds : TaskStatus(t).status = "SUCCESS"
                                 => (TaskStatus(t).status)' # "PENDING"]_vars

\* ------------------------------------------------------------ task queue
\* C27: an export status check whose task-queue lookup raises answers from
\* the progress record or with status 'unknown', never with a 500.
C27_LookupFailureIsNo500 ==
    (resp.op = "get_export_status" /\ resp.ran /\ resp.lookup = "ImportError")
        => resp.status # 500

\* C28: a route that enqueues puts a task on the queue under a name
\* register_celery_tasks registered; trigger-monthly-generation enqueues the
\* registered monthly-report task.
C28_RoutesEnqueueRegisteredTasks ==
    /\ \A m \in Queue : m.name \in RegisteredTasks
    /\ (resp.op = "generate_monthly_reports" /\ resp.ran)
           => /\ resp.task_name \in RegisteredTasks
              /\ \E m \in Queue : m.name = resp.task_name

\* -------------------------------------------------------- legacy session
\* C29: the session never holds a user id together with the admin flag:
\* check-auth of a session with a user id reports is_admin false, and the
\* user dashboard rejects a session with the admin flag.
C29_OneRolePerSession ==
    /\ ~(session.user_id # None /\ session.admin)
    /\ (resp.op = "check_auth" /\ session.user_id # None) => ~resp.is_admin
    /\ (resp.op = "user_dashboard" /\ session.admin) => resp.status = 403

\* --------------------------------------------------------------- progress
\* The caller's Scores behind the last progress answer.
Answered == resp.op = "get_user_progress" /\ resp.status \in {200, 500}

\* C30 as stated: success exactly for two Scores or more, with improvement
\* the last score minus the first and improvement_percentage that
\* difference over the first times 100 (0 when the first is 0); 500 for
\* fewer Scores.
C30_ProgressExact ==
    Answered =>
        LET rows == ScoresOf(resp.user_id)
        IN /\ resp.status = 200 <=> Cardinality(rows) >= 2
           /\ resp.status = 200 =>
                  \E first \in FirstRows(rows), last \in LastRows(rows) :
                      /\ first # last
                      /\ resp.improvement = RatSub(last.total_scored, first.total_scored)
                      /\ resp.improvement_percentage =
                             IF first.total_scored[1] > 0
                             THEN RatPercentOf(RatSub(last.total_scored, first.total_scored),
                                               first.total_scored)
                             ELSE Rat(0, 1)

\* C30, amended: the same, with both figures rounded to two decimals.
C30_ProgressRounded ==
    Answered =>
        LET rows == ScoresOf(resp.user_id)
        IN /\ resp.status = 200 <=> Cardinality(rows) >= 2
           /\ resp.status = 200 =>
                  \E first \in FirstRows(rows), last \in LastRows(rows) :
                      /\ first # last
                      /\ resp.improvement =
                             Round(RatSub(last.total_scored, first.total_scored), 2)
                      /\ resp.improvement_percentage =
                             IF first.total_scored[1] > 0
                             THEN Round(RatPercentOf(RatSub(last.total_scored,
                                                            first.total_scored),
                                                     first.total_scored), 2)
                             ELSE Rat(0, 1)

\* C30's cases: a success whose improvement is no multiple of 1/100 before
\* rounding, and a caller with one Score answered 500.
C30_Witness ==
    /\ resp.op = "get_user_progress"
    /\ resp.status = 200
    /\ resp.improvement # Rat(0, 1)
    /\ \E first \in FirstRows(ScoresOf(resp.user_id)), last \in LastRows(ScoresOf(resp.user_id)) :
           /\ first # last
           /\ first.total_scored[1] > 0
           /\ resp.improvement # RatSub(last.total_scored, first.total_scored)

C30_WitnessUnset ==
    /\ resp.op = "get_user_progress"
    /\ resp.status = 500
    /\ Cardinality(ScoresOf(resp.user_id)) = 1

====
